---- MODULE Spec2Model ----
(***************************************************************************)
(* HTS code identifier: the interactive disambiguation engine              *)
(* (agents/query_agent.py), its session state machine                      *)
(* (app/api/classify_router.py over app/session_store.py) and the query    *)
(* service in between (app/services/query_service.py).                     *)
(*                                                                         *)
(* Strings that the code only compares are TLA+ strings; strings that the  *)
(* code takes apart (queries, HTS numbers) are sequences of one-character  *)
(* strings.  Row indices are the 0-based labels of the pandas RangeIndex.  *)
(***************************************************************************)
EXTENDS Integers, Sequences, FiniteSets, TLC

VARIABLES
    df,      \* QueryAgent.df : row index -> row of the processed catalog
    store,   \* SessionStore._store : session id -> SessionState
    resp,    \* the request last served by a whole handler, and its response
    th,      \* per worker thread: the handler it is in, its position and locals
    calc     \* the last call of a pure function: its inputs and its output

vars == <<df, store, resp, th, calc>>

-----------------------------------------------------------------------------
(* Bounds *)

\* sessions a behaviour creates (session ids are fresh uuid4 values)
MaxSessions == 1
\* rows of a catalog drawn for the checks of the pure functions
FrameRows == 3
\* hits the search collaborator returns for one free-text query
MaxHits == 0

-----------------------------------------------------------------------------
(* Python values *)

\* None, where the code holds an Optional[int]
NoneIdx == -1

Range(s) == {s[i] : i \in DOMAIN s}

RECURSIVE Sum(_)
Sum(s) == IF s = <<>> THEN 0 ELSE Head(s) + Sum(Tail(s))

\* str.strip() on the values a catalog column can hold
Strip(v) ==
    CASE v = " Live" -> "Live"
      [] v = "Horses " -> "Horses"
      [] v = " " -> ""
      [] OTHER -> v

\* str.lower()
Lower(v) ==
    CASE v = "Live" -> "live"
      [] v = "Horses" -> "horses"
      [] v = "Asses" -> "asses"
      [] v = "Other" -> "other"
      [] v = "Imported" -> "imported"
      [] v = "Male" -> "male"
      [] v = "Female" -> "female"
      [] v = "Mules" -> "mules"
      [] OTHER -> v

\* str.capitalize(): first character upper case, the rest lower case
Capitalize(v) ==
    CASE v = "live" -> "Live"
      [] v = "horses" -> "Horses"
      [] v = "asses" -> "Asses"
      [] v = "other" -> "Other"
      [] v = "imported" -> "Imported"
      [] v = "male" -> "Male"
      [] v = "female" -> "Female"
      [] v = "mules" -> "Mules"
      [] OTHER -> v

\* the keywords of _generate_question_text that occur in a lower-case value
Keywords(v) ==
    CASE v = "live" -> {"live"}
      [] v = "imported" -> {"imported"}
      [] v = "male" -> {"male"}
      [] v = "female" -> {"male", "female"}
      [] OTHER -> {}

\* value[0] in 'aeiou'
StartsWithVowel(v) == v \in {"asses", "imported", "other"}

\* value.startswith("other")
StartsWithOther(v) == v = "other"

-----------------------------------------------------------------------------
(* The catalog *)

\* one row of the processed CSV: the HTS number and the Spec_Level_* columns
Row(hts, specs) == [hts |-> hts, spec |-> specs]

\* a DataFrame with the default RangeIndex
Frame(rows) == [i \in 0..(Len(rows) - 1) |-> rows[i + 1]]

NRows(d) == Cardinality(DOMAIN d)

\* QueryAgent.spec_cols: the Spec_Level_* columns in ascending level order,
\* each named by its level number
SpecCols(d) == IF NRows(d) = 0 THEN 0 ELSE Len(d[0].spec)

\* candidates[spec_col].apply(lambda x: x.strip() if x else "")
SpecValues(d, cands, c) == [k \in 1..Len(cands) |-> Strip(d[cands[k]].spec[c])]

\* first occurrences, in order (Series.unique, and the key order of Counter)
RECURSIVE Unique(_)
Unique(s) ==
    IF s = <<>> THEN <<>>
    ELSE LET h == Head(s)
         IN  <<h>> \o Unique(SelectSeq(Tail(s), LAMBDA x : x # h))

NonEmpty(s) == SelectSeq(s, LAMBDA x : x # "")

CountOf(s, v) == Len(SelectSeq(s, LAMBDA x : x = v))

\* Counter(spec_values[spec_values != ""]).items()
ValueCounts(vals) ==
    LET ks == Unique(NonEmpty(vals))
    IN  [k \in 1..Len(ks) |-> [val |-> ks[k], count |-> CountOf(vals, ks[k])]]

\* sorted(..., key=lambda x: x[1], reverse=True): stable, so equal counts keep
\* their first-seen order
RECURSIVE InsertByCount(_, _)
InsertByCount(sorted, e) ==
    IF sorted = <<>> THEN <<e>>
    ELSE IF Head(sorted).count >= e.count
         THEN <<Head(sorted)>> \o InsertByCount(Tail(sorted), e)
         ELSE <<e>> \o sorted

RECURSIVE SortByCountDesc(_)
SortByCountDesc(items) ==
    IF items = <<>> THEN <<>>
    ELSE InsertByCount(SortByCountDesc(SubSeq(items, 1, Len(items) - 1)),
                       items[Len(items)])

-----------------------------------------------------------------------------
(* Question Generator: QueryAgent.generate_smart_question *)

\* the filter_value of an option: a string, a list of strings, or None
FvStr(v) == [kind |-> "str", val |-> v, vals |-> <<>>]
FvList(vs) == [kind |-> "list", val |-> "", vals |-> vs]
FvNone == [kind |-> "none", val |-> "", vals |-> <<>>]

Option(label, fv, count) ==
    [label |-> label, filter_value |-> fv, expected_count |-> count]

\* None, where the code holds an Optional[Dict] question
NoQuestion == [id |-> 0, question |-> "", spec_column |-> 0, options |-> <<>>]

_format_question_text(value) ==
    LET v == Strip(Lower(value))
    IN  IF StartsWithOther(v) THEN v
        ELSE IF StartsWithVowel(v) THEN "an " \o v
        ELSE IF v \notin {"purebred", "breeding", "imported", "live"} THEN "a " \o v
        ELSE v

_format_option_text(value) ==
    IF value # "" THEN Capitalize(Strip(value)) ELSE "Not specified"

_generate_question_text(level_num, values) ==
    LET kws == UNION {Keywords(Lower(values[k])) : k \in DOMAIN values}
    IN  IF "imported" \in kws THEN "What is the import status?"
        ELSE IF {"purebred", "breeding"} \cap kws # {} THEN "What is the breeding type?"
        ELSE IF {"male", "female"} \cap kws # {} THEN "What is the gender?"
        ELSE IF "live" \in kws THEN "Is it live or processed?"
        ELSE IF {"whole", "cut", "pieces"} \cap kws # {} THEN "What is the form?"
        ELSE IF {"fresh", "frozen", "dried"} \cap kws # {}
             THEN "What is the preservation method?"
        ELSE IF level_num = 1 THEN "What type of product is it?"
        ELSE IF level_num = 2 THEN "What specific variety?"
        ELSE "Select the specific characteristic:"

\* the values sorted by ascending count: "Yes" selects the rarer value
BinaryQuestion_LeastFrequent(c, sorted_values) ==
    [id |-> 1,
     question |-> "Is it " \o _format_question_text(sorted_values[2].val) \o "?",
     spec_column |-> c,
     options |-> <<Option("Yes", FvStr(sorted_values[2].val), sorted_values[2].count),
                   Option("No", FvNone, sorted_values[1].count)>>]

\* len(sorted_values) == 2: the Yes/No question on the most frequent value
BinaryQuestion(c, sorted_values) ==
    LET main_value == sorted_values[1].val
    IN  [id |-> 1,
         question |-> "Is it " \o _format_question_text(main_value) \o "?",
         spec_column |-> c,
         options |-> <<Option("Yes", FvStr(main_value), sorted_values[1].count),
                       Option("No", FvNone,
                              Sum([k \in 1..(Len(sorted_values) - 1) |->
                                      sorted_values[k + 1].count]))>>]

ValueOptions(items) ==
    [k \in 1..Len(items) |->
        Option(_format_option_text(items[k].val), FvStr(items[k].val), items[k].count)]

\* "Other" stands for the fourth value alone
GroupedOptions_FourthOnly(sorted_values) ==
    ValueOptions(SubSeq(sorted_values, 1, 3))
        \o <<Option("Other", FvList(<<sorted_values[4].val>>), sorted_values[4].count)>>

\* len(sorted_values) > 4: the three most frequent values and "Other"
GroupedOptions(sorted_values) ==
    LET rest == SubSeq(sorted_values, 4, Len(sorted_values))
        other_count == Sum([k \in 1..Len(rest) |-> rest[k].count])
        other_values == [k \in 1..Len(rest) |-> rest[k].val]
    IN  ValueOptions(SubSeq(sorted_values, 1, 3))
            \o (IF other_count > 0
                THEN <<Option("Other", FvList(other_values), other_count)>>
                ELSE <<>>)

\* the values are grouped from four distinct values on
MultipleChoiceQuestion_GroupsAtFour(c, sorted_values, unique_values) ==
    [id |-> 1,
     question |-> _generate_question_text(c, unique_values),
     spec_column |-> c,
     options |-> IF Len(sorted_values) >= 4 THEN GroupedOptions(sorted_values)
                 ELSE ValueOptions(sorted_values)]

MultipleChoiceQuestion(c, sorted_values, unique_values) ==
    [id |-> 1,
     question |-> _generate_question_text(c, unique_values),
     spec_column |-> c,
     options |-> IF Len(sorted_values) > 4 THEN GroupedOptions(sorted_values)
                 ELSE ValueOptions(sorted_values)]

\* the body of the loop over spec_cols for one column that has more than one
\* distinct non-empty value
QuestionAtLevel(d, cands, c) ==
    LET spec_values == SpecValues(d, cands, c)
        unique_values == Unique(NonEmpty(spec_values))
        sorted_values == SortByCountDesc(ValueCounts(spec_values))
    IN  IF Len(sorted_values) = 2 THEN BinaryQuestion(c, sorted_values)
        ELSE MultipleChoiceQuestion(c, sorted_values, unique_values)

\* the empty string is counted as a value of the level
SkipLevel_CountsEmpty(d, cands, c) == Len(Unique(SpecValues(d, cands, c))) <= 1

\* "if len(unique_values) <= 1: continue"
SkipLevel(d, cands, c) == Len(Unique(NonEmpty(SpecValues(d, cands, c)))) <= 1

\* the loop over spec_cols from column c on
RECURSIVE ScanLevels(_, _, _)
ScanLevels(d, cands, c) ==
    IF c > SpecCols(d) THEN NoQuestion
    ELSE IF SkipLevel(d, cands, c) THEN ScanLevels(d, cands, c + 1)
    ELSE QuestionAtLevel(d, cands, c)

generate_smart_question(d, cands) ==
    IF Len(cands) <= 1 THEN NoQuestion ELSE ScanLevels(d, cands, 1)

-----------------------------------------------------------------------------
(* Answer Filter: QueryAgent.filter_candidates_by_answer *)

\* a list selector compared with == instead of isin: only its first value passes
filter_candidates_FirstOfList(d, cands, question, selected_option) ==
    LET c == question.spec_column
        fv == selected_option.filter_value
        main_value == question.options[1].filter_value
    IN  IF fv.kind = "none"
        THEN SelectSeq(cands, LAMBDA i : FvStr(d[i].spec[c]) # main_value)
        ELSE IF fv.kind = "list"
        THEN SelectSeq(cands, LAMBDA i : d[i].spec[c] = fv.vals[1])
        ELSE SelectSeq(cands, LAMBDA i : d[i].spec[c] = fv.val)

\* the mask is applied to the whole catalog instead of the candidates
filter_candidates_WholeCatalog(d, cands, question, selected_option) ==
    LET c == question.spec_column
        fv == selected_option.filter_value
        main_value == question.options[1].filter_value
        rows == [k \in 1..NRows(d) |-> k - 1]
    IN  IF fv.kind = "none"
        THEN SelectSeq(rows, LAMBDA i : FvStr(d[i].spec[c]) # main_value)
        ELSE IF fv.kind = "list"
        THEN SelectSeq(rows, LAMBDA i : d[i].spec[c] \in Range(fv.vals))
        ELSE SelectSeq(rows, LAMBDA i : d[i].spec[c] = fv.val)

\* the rows of candidates, in order, whose raw (unstripped) value passes
filter_candidates_by_answer(d, cands, question, selected_option) ==
    LET c == question.spec_column
        fv == selected_option.filter_value
        main_value == question.options[1].filter_value
    IN  IF fv.kind = "none"
        THEN SelectSeq(cands, LAMBDA i : FvStr(d[i].spec[c]) # main_value)
        ELSE IF fv.kind = "list"
        THEN SelectSeq(cands, LAMBDA i : d[i].spec[c] \in Range(fv.vals))
        ELSE SelectSeq(cands, LAMBDA i : d[i].spec[c] = fv.val)

-----------------------------------------------------------------------------
(* Query service: app/services/query_service.py *)

\* QueryService.make_question_for_indices: the question for df.loc[indices]
make_question_for_indices(d, indices) == generate_smart_question(d, indices)

\* None, where the code holds an Optional[Dict] payload
NoPayload == [index |-> NoneIdx, hts |-> <<>>, specifications |-> <<>>]

\* QueryService.details_for_index over QueryAgent.get_candidate_details: the
\* HTS number and the non-empty stripped specification levels of row idx
details_for_index(d, idx) ==
    [index |-> idx,
     hts |-> d[idx].hts,
     specifications |->
         NonEmpty([c \in 1..SpecCols(d) |-> Strip(d[idx].spec[c])])]

\* DataFrame.head(n) of the candidates, as row indices
HeadOf(indices, n) == SubSeq(indices, 1, IF Len(indices) < n THEN Len(indices) ELSE n)

\* rows of the candidate previews of post_answer and of get_result
AnswerPreviewRows == 5
ResultPreviewRows == 10

-----------------------------------------------------------------------------
(* Session store: app/session_store.py *)

\* SessionStore.create_session: a SessionState with the dataclass defaults
NewSession(candidate_indices, initial_query) ==
    [candidate_indices |-> candidate_indices,
     initial_query |-> initial_query,
     current_question |-> NoQuestion,
     question_history |-> <<>>,
     final_result_index |-> NoneIdx]

\* the session ids in use; the n-th session created has id n
SessionIds(st) == DOMAIN st

\* an update that skips None values, so a question is never cleared
SetQuestion_SkipsNone(st, sid, q) ==
    IF q = NoQuestion THEN st ELSE [st EXCEPT ![sid].current_question = q]

\* SessionStore.update(session_id, current_question=q)
SetQuestion(st, sid, q) == [st EXCEPT ![sid].current_question = q]

\* SessionStore.update(session_id, candidate_indices=..., question_history=...)
SetCandidates(st, sid, indices, history) ==
    [st EXCEPT ![sid].candidate_indices = indices,
               ![sid].question_history = history]

\* SessionStore.update(session_id, final_result_index=idx)
SetFinal(st, sid, idx) == [st EXCEPT ![sid].final_result_index = idx]

-----------------------------------------------------------------------------
(* Candidate Locator: the query kinds of start_classification *)

Digits == {"0", "1", "2", "3", "4", "5", "6", "7", "8", "9"}

\* str.strip() on a sequence of characters
RECURSIVE LStrip(_)
LStrip(q) == IF q # <<>> /\ Head(q) = " " THEN LStrip(Tail(q)) ELSE q

RECURSIVE RStrip(_)
RStrip(q) ==
    IF q # <<>> /\ q[Len(q)] = " " THEN RStrip(SubSeq(q, 1, Len(q) - 1)) ELSE q

StripChars(q) == RStrip(LStrip(q))

\* str.replace(".", "")
RemoveDots(q) == SelectSeq(q, LAMBDA ch : ch # ".")

\* str.isdigit(): non-empty and digits only
IsDigit(q) == q # <<>> /\ Range(q) \subseteq Digits

StartsWith(q, prefix) ==
    Len(prefix) <= Len(q) /\ SubSeq(q, 1, Len(prefix)) = prefix

\* the digits of a complete HTS code, and of the prefixes a query may give
FullCodeLength == 10
PrefixLengths == {4, 6}

\* QueryAgent.get_candidates_by_prefix: the rows, in catalog order, whose HTS
\* number without dots starts with the prefix; as the list of their indices
AllIndices(d) == [k \in 1..NRows(d) |-> k - 1]

get_candidates_by_prefix(d, prefix) ==
    LET clean_prefix == RemoveDots(prefix)
    IN  SelectSeq(AllIndices(d),
                  LAMBDA i : StartsWith(RemoveDots(d[i].hts), clean_prefix))

\* what the search collaborator may report: row indices, each at most once,
\* at most MaxHits of them (utils/vectorstore.py stores one point per row)
HitLists(d) ==
    {h \in UNION {[1..n -> DOMAIN d] : n \in 0..MaxHits} :
        \A a, b \in DOMAIN h : a # b => h[a] # h[b]}

-----------------------------------------------------------------------------
(* Requests and responses of app/api/classify_router.py *)

\* None, where the request holds an Optional[str]
NoneLabel == "<None>"

NoRequest == [query |-> <<>>, selected_label |-> NoneLabel,
              selected_filter_value |-> FvNone]

ClassifyRequest(query) == [NoRequest EXCEPT !.query = query]

AnswerRequest(label, fv) ==
    [NoRequest EXCEPT !.selected_label = label, !.selected_filter_value = fv]

\* every response of the router, as one record shape; located is the candidate
\* set start_classification had in hand (its local variable candidates)
Response(op, sid, req) ==
    [op |-> op, session_id |-> sid, req |-> req, status |-> 200, detail |-> "",
     type |-> "", question |-> NoQuestion, final |-> NoPayload,
     preview |-> <<>>, candidates_count |-> 0, located |-> <<>>]

\* raise HTTPException(status_code, detail)
HTTPException(op, sid, req, status, detail) ==
    [Response(op, sid, req) EXCEPT !.status = status, !.detail = detail]

NoResponse == Response("", 0, NoRequest)

\* what a handler leaves behind: the store and its response
Outcome(st, r) == [store |-> st, resp |-> r]

-----------------------------------------------------------------------------
(* POST /api/classify/start *)

SessionResponse(req, sid, indices, question) ==
    [Response("start", sid, req) EXCEPT
        !.type = "session", !.candidates_count = Len(indices),
        !.question = question, !.located = indices]

\* create_session, then "try to generate first question" and store it
CreateSessionAndAsk(d, st, req, q, indices) ==
    LET sid == Len(st) + 1
        created == Append(st, NewSession(indices, q))
        question == make_question_for_indices(d, indices)
    IN  Outcome(IF question # NoQuestion THEN SetQuestion(created, sid, question)
                ELSE created,
                SessionResponse(req, sid, indices, question))

\* the session is created before the candidates are looked at
RejectNoCandidates_CreatesSession(st, req, detail) ==
    Outcome(Append(st, NewSession(<<>>, StripChars(req.query))),
            HTTPException("start", 0, req, 404, detail))

\* "if candidates.empty: raise HTTPException(status_code=404, ...)"
RejectNoCandidates(st, req, detail) ==
    Outcome(st, HTTPException("start", 0, req, 404, detail))

\* exact_hits and text_hits are what the search collaborator reports for an
\* exact-code search and for a free-text search of this query
start_classification(d, st, req, exact_hits, text_hits) ==
    LET q == StripChars(req.query)
        clean == StripChars(RemoveDots(q))
    IN  IF IsDigit(clean) /\ Len(clean) = FullCodeLength /\ exact_hits # <<>>
        THEN Outcome(st, [Response("start", 0, req) EXCEPT
                             !.type = "exact",
                             !.final = details_for_index(d, exact_hits[1])])
        ELSE IF IsDigit(clean) /\ Len(clean) \in PrefixLengths
        THEN LET candidates == get_candidates_by_prefix(d, clean)
             IN  IF candidates = <<>>
                 THEN RejectNoCandidates(st, req, "No HTS codes found starting with prefix")
                 ELSE CreateSessionAndAsk(d, st, req, q, candidates)
        ELSE LET candidates == text_hits
             IN  IF candidates = <<>>
                 THEN RejectNoCandidates(st, req, "No matching products found. Try different keywords.")
                 ELSE CreateSessionAndAsk(d, st, req, q, candidates)

-----------------------------------------------------------------------------
(* GET /api/classify/question *)

\* the question returned is taken out of the session
get_current_question_TakesQuestion(d, st, sid) ==
    IF sid \notin SessionIds(st)
    THEN Outcome(st, HTTPException("question", sid, NoRequest, 404, "Session not found"))
    ELSE LET q == make_question_for_indices(d, st[sid].candidate_indices)
             generate == st[sid].current_question = NoQuestion
         IN  IF generate /\ q = NoQuestion
             THEN Outcome(st, HTTPException("question", sid, NoRequest, 404,
                              "No question could be generated for current candidates"))
             ELSE Outcome(SetQuestion(st, sid, NoQuestion),
                          [Response("question", sid, NoRequest) EXCEPT
                              !.question = IF generate THEN q
                                           ELSE st[sid].current_question])

get_current_question(d, st, sid) ==
    IF sid \notin SessionIds(st)
    THEN Outcome(st, HTTPException("question", sid, NoRequest, 404, "Session not found"))
    ELSE LET q == make_question_for_indices(d, st[sid].candidate_indices)
             generate == st[sid].current_question = NoQuestion
         IN  IF generate /\ q = NoQuestion
             THEN Outcome(st, HTTPException("question", sid, NoRequest, 404,
                              "No question could be generated for current candidates"))
             ELSE LET updated == IF generate THEN SetQuestion(st, sid, q) ELSE st
                  IN  Outcome(updated,
                              [Response("question", sid, NoRequest) EXCEPT
                                  !.question = updated[sid].current_question])

-----------------------------------------------------------------------------
(* GET /api/classify/result *)

\* without a resolved index the first candidate is given as the final record
get_result_FirstAsFinal(d, st, sid) ==
    IF sid \notin SessionIds(st)
    THEN Outcome(st, HTTPException("result", sid, NoRequest, 404, "Session not found"))
    ELSE LET idx == IF st[sid].final_result_index # NoneIdx
                    THEN st[sid].final_result_index
                    ELSE st[sid].candidate_indices[1]
         IN  Outcome(st, [Response("result", sid, NoRequest) EXCEPT
                             !.type = "final",
                             !.final = details_for_index(d, idx)])

get_result(d, st, sid) ==
    IF sid \notin SessionIds(st)
    THEN Outcome(st, HTTPException("result", sid, NoRequest, 404, "Session not found"))
    ELSE IF st[sid].final_result_index # NoneIdx
    THEN Outcome(st, [Response("result", sid, NoRequest) EXCEPT
                         !.type = "final",
                         !.final = details_for_index(d, st[sid].final_result_index)])
    ELSE Outcome(st, [Response("result", sid, NoRequest) EXCEPT
                         !.type = "preview",
                         !.preview = HeadOf(st[sid].candidate_indices, ResultPreviewRows)])

-----------------------------------------------------------------------------
(* POST /api/classify/answer *)

\* the option a request selects: {"filter_value": v} without a label when the
\* request carries a filter value, else the first option with the given label,
\* else None (found = FALSE)
NoOption == [found |-> FALSE, has_label |-> FALSE, label |-> "",
             filter_value |-> FvNone]

UnlabelledOption(fv) == [NoOption EXCEPT !.found = TRUE, !.filter_value = fv]

OptionByLabel(question, label) ==
    LET matching == SelectSeq(question.options, LAMBDA o : o.label = label)
    IN  IF matching = <<>> THEN NoOption
        ELSE [found |-> TRUE, has_label |-> TRUE, label |-> matching[1].label,
              filter_value |-> matching[1].filter_value]

SelectedOption(question, req) ==
    IF req.selected_filter_value # FvNone
    THEN UnlabelledOption(req.selected_filter_value)
    ELSE OptionByLabel(question, req.selected_label)

\* str() of a list of strings, from its k-th element on
RECURSIVE ReprItems(_, _)
ReprItems(vs, k) ==
    IF k > Len(vs) THEN ""
    ELSE (IF k > 1 THEN ", " ELSE "") \o "'" \o vs[k] \o "'" \o ReprItems(vs, k + 1)

\* str(selected_option) of an option that has no label
ReprOption(fv) ==
    "{'filter_value': "
        \o (IF fv.kind = "list" THEN "[" \o ReprItems(fv.vals, 1) \o "]"
            ELSE "'" \o fv.val \o "'")
        \o "}"

\* answer_label: the option's label, or str(selected_option) without one
AnswerLabel(selected) ==
    IF selected.has_label THEN selected.label ELSE ReprOption(selected.filter_value)

HistoryEntry(question, selected) ==
    [question |-> question.question, answer |-> AnswerLabel(selected)]

\* the second update is left out: the answered question stays stored
NarrowAndClear_KeepsQuestion(st, sid, new_indices, entry) ==
    SetCandidates(st, sid, new_indices, Append(st[sid].question_history, entry))

\* the history is overwritten by the new entry instead of extended
NarrowAndClear_DropsHistory(st, sid, new_indices, entry) ==
    SetQuestion(SetCandidates(st, sid, new_indices, <<entry>>), sid, NoQuestion)

\* the first two updates of post_answer: the narrowed candidates with the
\* extended history, then current_question=None
NarrowAndClear(st, sid, new_indices, entry) ==
    SetQuestion(SetCandidates(st, sid, new_indices,
                              Append(st[sid].question_history, entry)),
                sid, NoQuestion)

\* "If only one - finalize"
Finalize(d, st, sid, req, new_indices) ==
    Outcome(SetFinal(st, sid, new_indices[1]),
            [Response("answer", sid, req) EXCEPT
                !.type = "final", !.final = details_for_index(d, new_indices[1])])

\* "else generate next question or return top candidates preview"
AskNext(d, st, sid, req, new_indices) ==
    LET next_q == make_question_for_indices(d, new_indices)
    IN  Outcome(IF next_q # NoQuestion THEN SetQuestion(st, sid, next_q) ELSE st,
                [Response("answer", sid, req) EXCEPT
                    !.type = "preview",
                    !.preview = HeadOf(new_indices, AnswerPreviewRows)])

\* post_answer from "apply filter" on
ApplyAnswer(d, st, sid, req, question, selected) ==
    LET new_indices ==
            filter_candidates_by_answer(d, st[sid].candidate_indices, question, selected)
        narrowed == NarrowAndClear(st, sid, new_indices, HistoryEntry(question, selected))
    IN  IF Len(new_indices) = 1 THEN Finalize(d, narrowed, sid, req, new_indices)
        ELSE AskNext(d, narrowed, sid, req, new_indices)

\* the history is written before the question is looked at
RejectNoQuestion_WritesFirst(st, sid, req) ==
    Outcome([st EXCEPT ![sid].question_history =
                 Append(@, [question |-> "", answer |-> req.selected_label])],
            HTTPException("answer", sid, req, 400, "No active question on this session"))

\* "if question is None: raise HTTPException(status_code=400, ...)"
RejectNoQuestion(st, sid, req) ==
    Outcome(st, HTTPException("answer", sid, req, 400, "No active question on this session"))

\* "if selected_option is None: raise HTTPException(status_code=400, ...)"
RejectNoOption(st, sid, req) ==
    Outcome(st, HTTPException("answer", sid, req, 400, "Selected option not found"))

post_answer(d, st, sid, req) ==
    IF sid \notin SessionIds(st)
    THEN Outcome(st, HTTPException("answer", sid, req, 404, "Session not found"))
    ELSE IF st[sid].current_question = NoQuestion
    THEN RejectNoQuestion(st, sid, req)
    ELSE IF req.selected_filter_value = FvNone /\ req.selected_label = NoneLabel
    THEN Outcome(st, HTTPException("answer", sid, req, 400,
                                   "Provide selected_label or selected_filter_value"))
    ELSE LET question == st[sid].current_question
             selected == SelectedOption(question, req)
         IN  IF ~selected.found THEN RejectNoOption(st, sid, req)
             ELSE ApplyAnswer(d, st, sid, req, question, selected)

-----------------------------------------------------------------------------
(* Catalogs: processed tables as utils/preprocessing.py writes them (every    *)
(* specification level stripped, one row per complete HTS number)             *)

\* three levels; 0101 holds three level-1 values, 0101.21 two level-3 values
CatalogHorses ==
    Frame(<<Row(<<"0", "1", "0", "1", ".", "2", "1", ".", "0", "0", ".", "1", "0">>,
            <<"Horses", "Imported", "Male">>),
        Row(<<"0", "1", "0", "1", ".", "2", "1", ".", "0", "0", ".", "2", "0">>,
            <<"Horses", "Imported", "Female">>),
        Row(<<"0", "1", "0", "1", ".", "2", "9", ".", "0", "0", ".", "1", "0">>,
            <<"Horses", "Other", "">>),
        Row(<<"0", "1", "0", "1", ".", "3", "0", ".", "0", "0", ".", "0", "0">>,
            <<"Asses", "", "">>),
        Row(<<"0", "1", "0", "1", ".", "9", "0", ".", "0", "0", ".", "0", "0">>,
            <<"Mules", "", "">>)>>)

\* two levels; a row without a level-1 value, and a prefix (0202) of one row
CatalogMixed ==
    Frame(<<Row(<<"0", "2", "0", "1", ".", "1", "0", ".", "0", "0", ".", "0", "0">>,
            <<"", "Live">>),
        Row(<<"0", "2", "0", "1", ".", "2", "0", ".", "0", "0", ".", "0", "0">>,
            <<"Horses", "">>),
        Row(<<"0", "2", "0", "1", ".", "3", "0", ".", "0", "0", ".", "0", "0">>,
            <<"Asses", "">>),
        Row(<<"0", "2", "0", "2", ".", "1", "0", ".", "0", "0", ".", "0", "0">>,
            <<"Live", "">>)>>)

\* one level with five distinct values, one of them the text Other
CatalogGrouped ==
    Frame(<<Row(<<"0", "3", "0", "1", ".", "1", "0", ".", "0", "0", ".", "0", "0">>,
            <<"Other">>),
        Row(<<"0", "3", "0", "1", ".", "2", "0", ".", "0", "0", ".", "0", "0">>,
            <<"Horses">>),
        Row(<<"0", "3", "0", "1", ".", "3", "0", ".", "0", "0", ".", "0", "0">>,
            <<"Asses">>),
        Row(<<"0", "3", "0", "1", ".", "4", "0", ".", "0", "0", ".", "0", "0">>,
            <<"Mules">>),
        Row(<<"0", "3", "0", "1", ".", "5", "0", ".", "0", "0", ".", "0", "0">>,
            <<"Live">>)>>)

Catalogs == {CatalogHorses, CatalogMixed, CatalogGrouped}

\* the queries a client sends: prefixes of 4 and 6 digits, a complete code,
\* a digit string of another length and a product description
Queries ==
    {<<"0", "1", "0", "1">>,
     <<"0", "1", "0", "1", ".", "2", "1">>,
     <<"0", "2", "0", "1">>,
     <<" ", "0", "2", "0", "2">>,
     <<"0", "3", "0", "1">>,
     <<"0", "1", "0", "1", ".", "2", "1", ".", "0", "0", ".", "1", "0">>,
     <<"l", "i", "v", "e", " ", "h", "o", "r", "s", "e", "s">>}

-----------------------------------------------------------------------------
(* The requests of a client *)

\* what the search collaborator may report for an exact-code search: nothing,
\* or a hit (only results[0] is read)
ExactHitLists(d) == {<<>>} \cup {<<i>> : i \in DOMAIN d}

\* session ids a client may name: those in use and, up to the bound, unknown ones
ClientSessionIds == 1..MaxSessions

OptionLabels(question) == {question.options[k].label : k \in DOMAIN question.options}

OptionSelectors(question) ==
    {question.options[k].filter_value : k \in DOMAIN question.options}

\* the answers a client may send about a question: by label (a label of the
\* question or another one), by filter value (a selector of the question or a
\* value no row has), by both, or by neither
AnswerRequests(question) ==
    {AnswerRequest(l, FvNone) :
        l \in OptionLabels(question) \cup {"Yes", "Maybe", NoneLabel}}
    \cup {AnswerRequest(NoneLabel, fv) :
            fv \in (OptionSelectors(question) \ {FvNone})
                   \cup {FvStr("Zebra")}}
    \cup {AnswerRequest("Yes", FvStr("Horses"))}

\* the question a client was last shown for a session, if there is one
QuestionOf(st, sid) ==
    IF sid \in SessionIds(st) THEN st[sid].current_question ELSE NoQuestion

-----------------------------------------------------------------------------
(* Worker threads and pure calls, at rest *)

Threads == {"t1", "t2"}

IdleThread ==
    [pc |-> "idle", sid |-> 0, req |-> NoRequest, question |-> NoQuestion,
     selected |-> NoOption, indices |-> <<>>, history |-> <<>>,
     seen |-> NoResponse]

NoCalc == [op |-> "", cands |-> <<>>, question |-> NoQuestion]

-----------------------------------------------------------------------------
(* The session state machine, one request at a time *)

InitSessions ==
    /\ df \in Catalogs
    /\ store = <<>>
    /\ resp = NoResponse
    /\ th = [t \in Threads |-> IdleThread]
    /\ calc = NoCalc

\* a handler served from request to response with no other request in between
Serve(o) ==
    /\ Len(o.store) <= MaxSessions
    /\ store' = o.store
    /\ resp' = o.resp
    /\ UNCHANGED <<df, th, calc>>

\* the collaborator is asked for exact hits only for a complete code, and for
\* free-text hits only when neither an exact hit nor a prefix decides
StartClassification ==
    \E query \in Queries :
        LET clean == StripChars(RemoveDots(StripChars(query)))
            full == IsDigit(clean) /\ Len(clean) = FullCodeLength
            partial == IsDigit(clean) /\ Len(clean) \in PrefixLengths
        IN  \E exact_hits \in (IF full THEN ExactHitLists(df) ELSE {<<>>}) :
                \E text_hits \in (IF partial \/ exact_hits # <<>> THEN {<<>>}
                                  ELSE HitLists(df)) :
                    Serve(start_classification(df, store, ClassifyRequest(query),
                                               exact_hits, text_hits))

GetCurrentQuestion ==
    \E sid \in ClientSessionIds : Serve(get_current_question(df, store, sid))

PostAnswer ==
    \E sid \in ClientSessionIds :
        \E req \in AnswerRequests(QuestionOf(store, sid)) :
            Serve(post_answer(df, store, sid, req))

GetResult ==
    \E sid \in ClientSessionIds : Serve(get_result(df, store, sid))

Next == StartClassification \/ GetCurrentQuestion \/ PostAnswer \/ GetResult

Spec == InitSessions /\ [][Next]_vars

-----------------------------------------------------------------------------
(* Claims about the session state machine, one request at a time *)

SessionOf(sid) == store[sid]

Resolved(s) == s.final_result_index # NoneIdx

HasQuestion(s) == s.current_question # NoQuestion

\* the step serves a POST /answer for session sid
AnswerStep(sid) == resp'.op = "answer" /\ resp'.session_id = sid

\* C1: no session has both a resolved index and a current question
C1_ResolvedXorQuestion ==
    \A sid \in SessionIds(store) :
        ~(Resolved(SessionOf(sid)) /\ HasQuestion(SessionOf(sid)))

\* C1 witness: an answer has resolved a session
C1_Witness ==
    \E sid \in SessionIds(store) :
        /\ Resolved(SessionOf(sid))
        /\ SessionOf(sid).question_history # <<>>

\* the request names a selector of the question: its filter value is the
\* selector of an option, or without a filter value its label is an option's
SelectsAnOption(question, req) ==
    IF req.selected_filter_value # FvNone
    THEN req.selected_filter_value \in OptionSelectors(question)
    ELSE req.selected_label \in OptionLabels(question)

\* C2: an answer whose selector is not the selector of any option of the
\* current question is rejected and leaves the session store unchanged
C2_UnknownSelectorRejected ==
    [][\A sid \in SessionIds(store) :
          (/\ AnswerStep(sid)
           /\ HasQuestion(SessionOf(sid))
           /\ ~SelectsAnOption(SessionOf(sid).current_question, resp'.req))
          => (resp'.status # 200 /\ store' = store)]_vars

\* C3: an answer for a session without a current question is rejected with
\* status 400 and leaves the session store unchanged
C3_NoQuestionRejected ==
    [][\A sid \in SessionIds(store) :
          (AnswerStep(sid) /\ ~HasQuestion(SessionOf(sid)))
          => (resp'.status = 400 /\ store' = store)]_vars

\* C3 witness: an answer was rejected for a session that had been answered
\* before and has no question now
C3_Witness ==
    /\ resp.op = "answer"
    /\ resp.status = 400
    /\ resp.session_id \in SessionIds(store)
    /\ ~HasQuestion(SessionOf(resp.session_id))
    /\ SessionOf(resp.session_id).question_history # <<>>

\* C4: a session created from exactly one candidate is resolved to it, stores
\* no question, and GET /result answers with that record as the final result
C4_SingleCandidateResolved ==
    \A sid \in SessionIds(store) :
        (/\ SessionOf(sid).question_history = <<>>
         /\ Len(SessionOf(sid).candidate_indices) = 1)
        => /\ SessionOf(sid).final_result_index = SessionOf(sid).candidate_indices[1]
           /\ ~HasQuestion(SessionOf(sid))
           /\ (resp.op = "result" /\ resp.session_id = sid
               => resp.final = details_for_index(df, SessionOf(sid).candidate_indices[1]))

\* C5: a start whose located candidate set is empty is answered with an error
\* and adds no session; a start that adds a session located candidates for it
C5_EmptyStartRejected ==
    [][/\ (resp'.op = "start" /\ resp'.type # "exact" /\ resp'.located = <<>>)
          => (resp'.status = 404 /\ store' = store)
       /\ (resp'.op = "start" /\ resp'.type = "session")
          => /\ store' = Append(store, store'[resp'.session_id])
             /\ store'[resp'.session_id].candidate_indices = resp'.located
             /\ resp'.located # <<>>]_vars

\* C5 witness: a start was rejected for a prefix that no row of the catalog has
C5_Witness ==
    /\ resp.op = "start"
    /\ resp.status = 404
    /\ Len(StripChars(RemoveDots(StripChars(resp.req.query)))) \in PrefixLengths
    /\ get_candidates_by_prefix(df, StripChars(RemoveDots(StripChars(resp.req.query)))) = <<>>

\* the option a request chooses from the question it answers
ChosenOption(question, req) ==
    IF req.selected_filter_value # FvNone
    THEN [filter_value |-> req.selected_filter_value]
    ELSE LET k == CHOOSE k \in DOMAIN question.options :
                     /\ question.options[k].label = req.selected_label
                     /\ \A j \in 1..(k - 1) :
                            question.options[j].label # req.selected_label
         IN  question.options[k]

C7_ResolvedIsTerminal ==
    [][\A sid \in SessionIds(store) :
          Resolved(SessionOf(sid))
          => /\ store'[sid] = store[sid]
             /\ (AnswerStep(sid) => resp'.status # 200)]_vars

\* C7 witness: an answer was rejected for a resolved session
C7_Witness ==
    /\ resp.op = "answer"
    /\ resp.status # 200
    /\ resp.session_id \in SessionIds(store)
    /\ Resolved(SessionOf(resp.session_id))

-----------------------------------------------------------------------------
(* The Question Generator as a function of the catalog and the candidates *)

\* the values a specification level holds in the catalogs drawn here
FrameValues == {"", "Live", "Horses"}

FrameDigits == <<"0", "1", "2", "3", "4", "5", "6", "7", "8", "9">>

\* the HTS number of the k-th row of a drawn catalog
FrameHts(k) ==
    <<"0", "4", "0", "1", ".", "0", "0", ".", "0", "0", ".", "0", FrameDigits[k]>>

\* every catalog of at most FrameRows rows and two specification levels
FramesOf(n) ==
    {Frame([k \in 1..n |-> Row(FrameHts(k), <<specs[k][1], specs[k][2]>>)]) :
        specs \in [1..n -> FrameValues \X FrameValues]}

Frames == UNION {FramesOf(n) : n \in 0..FrameRows}

\* the candidate lists that keep catalog order: one per set of rows
CandidateLists(d) ==
    {SelectSeq(AllIndices(d), LAMBDA i : i \in rows) : rows \in SUBSET DOMAIN d}

InitFrames ==
    /\ df \in Frames
    /\ store = <<>>
    /\ resp = NoResponse
    /\ th = [t \in Threads |-> IdleThread]
    /\ calc = NoCalc

GenerateQuestion ==
    \E cands \in CandidateLists(df) :
        /\ calc' = [op |-> "generate", cands |-> cands,
                    question |-> generate_smart_question(df, cands)]
        /\ UNCHANGED <<df, store, resp, th>>

NextQG == GenerateQuestion

SpecQG == InitFrames /\ [][NextQG]_vars

\* the distinct non-empty trimmed values of the candidates at level c
DistinctValues(d, cands, c) ==
    {Strip(d[cands[k]].spec[c]) : k \in DOMAIN cands} \ {""}

\* the levels at which the candidates have at least two such values
DiscriminatingLevels(d, cands) ==
    {c \in 1..SpecCols(d) : Cardinality(DistinctValues(d, cands, c)) >= 2}

\* C10: the question asks about the lowest level with two distinct non-empty
\* trimmed values; there is no question exactly when the candidates are at
\* most one or no level has two such values
C10_FirstDiscriminatingLevel ==
    calc.op = "generate"
    => LET levels == DiscriminatingLevels(df, calc.cands)
       IN  /\ calc.question = NoQuestion
               <=> (Len(calc.cands) <= 1 \/ levels = {})
           /\ calc.question # NoQuestion
               => /\ calc.question.spec_column \in levels
                  /\ \A c \in levels : calc.question.spec_column <= c

\* C10 witness: the question skips level 1, where the candidates hold one
\* value and an empty string, and asks about level 2
C10_Witness ==
    /\ calc.op = "generate"
    /\ calc.question.spec_column = 2
    /\ \E k \in DOMAIN calc.cands : df[calc.cands[k]].spec[1] = ""
    /\ \E k \in DOMAIN calc.cands : df[calc.cands[k]].spec[1] # ""

-----------------------------------------------------------------------------
(* The handlers in worker threads.  FastAPI runs the synchronous endpoints   *)
(* in a thread pool; SessionStore.get takes no lock and returns the live     *)
(* SessionState, so every attribute read and every SessionStore.update is a  *)
(* step of its own, and steps of different threads interleave.               *)

\* two levels: answering Yes at level 1 leaves two rows and a level-2 question,
\* answering No leaves one row
CatalogAsses ==
    Frame(<<Row(<<"0", "1", "0", "1", ".", "2", "1", ".", "0", "0", ".", "1", "0">>,
            <<"Horses", "Male">>),
        Row(<<"0", "1", "0", "1", ".", "2", "1", ".", "0", "0", ".", "2", "0">>,
            <<"Horses", "Female">>),
        Row(<<"0", "1", "0", "1", ".", "3", "0", ".", "0", "0", ".", "0", "0">>,
            <<"Asses", "">>)>>)

ConcurrentCatalogs == {CatalogAsses}

ConcurrentQueries == {<<"0", "1", "0", "1">>}

\* the answers sent here: by a label of the question (none without a question)
ConcurrentAnswers(question) ==
    {AnswerRequest(l, FvNone) : l \in OptionLabels(question) \cup {NoneLabel}}

InitThreads ==
    /\ df \in ConcurrentCatalogs
    /\ store = <<>>
    /\ resp = NoResponse
    /\ th = [t \in Threads |-> IdleThread]
    /\ calc = NoCalc

\* thread t moves on; its locals change as given
Goto(t, pc, locals) == th' = [th EXCEPT ![t] = [locals EXCEPT !.pc = pc]]

\* thread t returns response r (or raises it) and is free again
Return(t, r) == th' = [th EXCEPT ![t] = [IdleThread EXCEPT !.seen = r]]

\* "with self._lock": held by a thread from one attribute write of
\* SessionStore.update(candidate_indices=..., question_history=...) to the next
LockHeld == \E t \in Threads : th[t].pc = "pa_update_history"

\* start_classification: the session id is known to no client before the
\* response, so no other request can name the session in between
T_Start(t) ==
    /\ th[t].pc = "idle"
    /\ ~LockHeld
    /\ \E query \in ConcurrentQueries :
           LET o == start_classification(df, store, ClassifyRequest(query), <<>>, <<>>)
           IN  /\ Len(o.store) <= MaxSessions
               /\ store' = o.store
               /\ Return(t, o.resp)
    /\ UNCHANGED <<df, resp, calc>>

\* post_answer, lines 171-199: s = session_store.get(...), question =
\* s.current_question, and the selected option
T_AnswerBegin(t) ==
    /\ th[t].pc = "idle"
    /\ \E sid \in ClientSessionIds :
           \E req \in ConcurrentAnswers(QuestionOf(store, sid)) :
               LET question == QuestionOf(store, sid)
                   selected == SelectedOption(question, req)
               IN  IF sid \notin SessionIds(store) \/ question = NoQuestion
                      \/ ~selected.found
                   THEN Return(t, post_answer(df, store, sid, req).resp)
                   ELSE Goto(t, "pa_filter",
                             [IdleThread EXCEPT !.sid = sid, !.req = req,
                                                !.question = question,
                                                !.selected = selected])
    /\ UNCHANGED <<df, store, resp, calc>>

\* lines 202-204: s.candidate_indices is read and filtered
T_AnswerFilter(t) ==
    /\ th[t].pc = "pa_filter"
    /\ Goto(t, "pa_history",
            [th[t] EXCEPT !.indices =
                filter_candidates_by_answer(df, store[th[t].sid].candidate_indices,
                                            th[t].question, th[t].selected)])
    /\ UNCHANGED <<df, store, resp, calc>>

\* line 214: s.question_history is read, before update takes the lock
T_AnswerHistory(t) ==
    /\ th[t].pc = "pa_history"
    /\ Goto(t, "pa_update_candidates",
            [th[t] EXCEPT !.history =
                Append(store[th[t].sid].question_history,
                       HistoryEntry(th[t].question, th[t].selected))])
    /\ UNCHANGED <<df, store, resp, calc>>

\* lines 211-215, first setattr under the lock
T_AnswerUpdateCandidates(t) ==
    /\ th[t].pc = "pa_update_candidates"
    /\ ~LockHeld
    /\ store' = [store EXCEPT ![th[t].sid].candidate_indices = th[t].indices]
    /\ Goto(t, "pa_update_history", th[t])
    /\ UNCHANGED <<df, resp, calc>>

\* lines 211-215, second setattr; the lock is released
T_AnswerUpdateHistory(t) ==
    /\ th[t].pc = "pa_update_history"
    /\ store' = [store EXCEPT ![th[t].sid].question_history = th[t].history]
    /\ Goto(t, "pa_clear", th[t])
    /\ UNCHANGED <<df, resp, calc>>

\* line 217: session_store.update(current_question=None)
T_AnswerClear(t) ==
    /\ th[t].pc = "pa_clear"
    /\ ~LockHeld
    /\ store' = SetQuestion(store, th[t].sid, NoQuestion)
    /\ Goto(t, IF Len(th[t].indices) = 1 THEN "pa_final" ELSE "pa_next", th[t])
    /\ UNCHANGED <<df, resp, calc>>

\* lines 220-223: final_result_index is stored and the record returned
T_AnswerFinal(t) ==
    /\ th[t].pc = "pa_final"
    /\ ~LockHeld
    /\ LET o == Finalize(df, store, th[t].sid, th[t].req, th[t].indices)
       IN  store' = o.store /\ Return(t, o.resp)
    /\ UNCHANGED <<df, resp, calc>>

\* lines 226-253: the next question is made from new_indices and stored
T_AnswerNext(t) ==
    /\ th[t].pc = "pa_next"
    /\ ~LockHeld
    /\ LET o == AskNext(df, store, th[t].sid, th[t].req, th[t].indices)
       IN  store' = o.store /\ Return(t, o.resp)
    /\ UNCHANGED <<df, resp, calc>>

\* get_current_question, lines 130-135: s.current_question is read
T_QuestionBegin(t) ==
    /\ th[t].pc = "idle"
    /\ \E sid \in ClientSessionIds :
           IF sid \notin SessionIds(store)
           THEN Return(t, get_current_question(df, store, sid).resp)
           ELSE Goto(t, IF store[sid].current_question = NoQuestion
                        THEN "gq_make" ELSE "gq_reread",
                     [IdleThread EXCEPT !.sid = sid])
    /\ UNCHANGED <<df, store, resp, calc>>

\* lines 136-140: a question is made from s.candidate_indices
T_QuestionMake(t) ==
    /\ th[t].pc = "gq_make"
    /\ LET q == make_question_for_indices(df, store[th[t].sid].candidate_indices)
       IN  IF q = NoQuestion
           THEN Return(t, HTTPException("question", th[t].sid, NoRequest, 404,
                          "No question could be generated for current candidates"))
           ELSE Goto(t, "gq_update", [th[t] EXCEPT !.question = q])
    /\ UNCHANGED <<df, store, resp, calc>>

\* line 141: session_store.update(current_question=q)
T_QuestionUpdate(t) ==
    /\ th[t].pc = "gq_update"
    /\ ~LockHeld
    /\ store' = SetQuestion(store, th[t].sid, th[t].question)
    /\ Goto(t, "gq_reread", th[t])
    /\ UNCHANGED <<df, resp, calc>>

\* lines 144-166: the stored question is read again and returned
T_QuestionReturn(t) ==
    /\ th[t].pc = "gq_reread"
    /\ IF store[th[t].sid].current_question = NoQuestion
       THEN Return(t, HTTPException("question", th[t].sid, NoRequest, 500,
                      "Failed to retrieve question after update"))
       ELSE Return(t, [Response("question", th[t].sid, NoRequest) EXCEPT
                          !.question = store[th[t].sid].current_question])
    /\ UNCHANGED <<df, store, resp, calc>>

\* get_result, lines 258-263: s.final_result_index is read
T_ResultBegin(t) ==
    /\ th[t].pc = "idle"
    /\ \E sid \in ClientSessionIds :
           IF sid \notin SessionIds(store) \/ store[sid].final_result_index # NoneIdx
           THEN Return(t, get_result(df, store, sid).resp)
           ELSE Goto(t, "gr_preview", [IdleThread EXCEPT !.sid = sid])
    /\ UNCHANGED <<df, store, resp, calc>>

\* lines 265-275: s.candidate_indices is read for the preview
T_ResultPreview(t) ==
    /\ th[t].pc = "gr_preview"
    /\ Return(t, [Response("result", th[t].sid, NoRequest) EXCEPT
                     !.type = "preview",
                     !.preview = HeadOf(store[th[t].sid].candidate_indices,
                                        ResultPreviewRows)])
    /\ UNCHANGED <<df, store, resp, calc>>

NextThreads ==
    \E t \in Threads :
        \/ T_Start(t)
        \/ T_AnswerBegin(t)
        \/ T_AnswerFilter(t)
        \/ T_AnswerHistory(t)
        \/ T_AnswerUpdateCandidates(t)
        \/ T_AnswerUpdateHistory(t)
        \/ T_AnswerClear(t)
        \/ T_AnswerFinal(t)
        \/ T_AnswerNext(t)
        \/ T_QuestionBegin(t)
        \/ T_QuestionMake(t)
        \/ T_QuestionUpdate(t)
        \/ T_QuestionReturn(t)
        \/ T_ResultBegin(t)
        \/ T_ResultPreview(t)

SpecThreads == InitThreads /\ [][NextThreads]_vars

-----------------------------------------------------------------------------
(* Claims about overlapping requests *)

\* thread t takes the step from position from to position to
Moves(t, from, to) == th[t].pc = from /\ th'[t].pc = to

\* C8: overlapping answers for one session behave as one after the other: the
\* candidates an answer stores are the stored candidates narrowed by it, the
\* history it stores is the stored history extended by its entry, and it
\* stores no question on a session that is resolved
C8_AnswersSerializable ==
    [][\A t \in Threads :
          /\ Moves(t, "pa_update_candidates", "pa_update_history")
             => store'[th[t].sid].candidate_indices
                    = filter_candidates_by_answer(
                          df, store[th[t].sid].candidate_indices,
                          th[t].question, th[t].selected)
          /\ Moves(t, "pa_update_history", "pa_clear")
             => store'[th[t].sid].question_history
                    = Append(store[th[t].sid].question_history,
                             HistoryEntry(th[t].question, th[t].selected))
          /\ Moves(t, "pa_next", "idle")
             => ~(Resolved(store'[th[t].sid]) /\ HasQuestion(store'[th[t].sid]))]_vars

\* C9: a GET /result or GET /question that runs while an answer is applied
\* sees the session before or after the answer: never one candidate left by
\* an answer without the resolved index, never a question that is not the
\* question of the stored candidates
C9_NoPartialObservation ==
    [][\A t \in Threads :
          /\ Moves(t, "gr_preview", "idle")
             => ~(/\ Len(th'[t].seen.preview) = 1
                  /\ store[th[t].sid].question_history # <<>>)
          /\ (Moves(t, "gq_reread", "idle") /\ th'[t].seen.status = 200)
             => th'[t].seen.question
                    = generate_smart_question(df, store[th[t].sid].candidate_indices)]_vars

-----------------------------------------------------------------------------
(* The options of a question and the Answer Filter, over catalogs whose      *)
(* second level holds up to five distinct values                             *)

\* most rows of a catalog drawn here
OptionRows == 6

\* the values of the second specification level, in the order in which a
\* catalog drawn here first uses them
OptionValues == <<"Horses", "Asses", "Mules", "Male", "Female">>

\* the values a column may hold in its next row: those it holds, the next
\* one, and the empty string
NextValues(col) ==
    LET held == Cardinality(Range(col) \ {""})
        upto == IF held < Len(OptionValues) THEN held + 1 ELSE held
    IN  {""} \cup {OptionValues[j] : j \in 1..upto}

\* the second-level columns of n rows
RECURSIVE OptionColumns(_)
OptionColumns(n) ==
    IF n = 0 THEN {<<>>}
    ELSE UNION {{Append(col, v) : v \in NextValues(col)} :
                   col \in OptionColumns(n - 1)}

\* the first specification level of a catalog of n rows: one value in every
\* row, or the first row empty, or the first row with a value of its own
LeadingLevels(n) ==
    {[k \in 1..n |-> "Live"],
     [k \in 1..n |-> IF k = 1 THEN "" ELSE "Live"],
     [k \in 1..n |-> IF k = 1 THEN "Imported" ELSE "Live"]}

OptionFramesOf(n) ==
    {Frame([k \in 1..n |-> Row(FrameHts(k), <<lead[k], col[k]>>)]) :
        lead \in LeadingLevels(n), col \in OptionColumns(n)}

\* the candidate lists drawn: every row, or every row but the first
DrawnCandidates(d) == {AllIndices(d), Tail(AllIndices(d))}

\* an option a client can build for selected_filter_value: a value no
\* option of the question need hold
ForeignOptions == {UnlabelledOption(FvStr("Live"))}

InitOptions ==
    /\ \E n \in 1..OptionRows : df \in OptionFramesOf(n)
    /\ store = <<>>
    /\ resp = NoResponse
    /\ th = [t \in Threads |-> IdleThread]
    /\ calc = NoCalc

AskQuestion ==
    \E cands \in DrawnCandidates(df) :
        /\ calc' = [op |-> "generate", cands |-> cands,
                    question |-> generate_smart_question(df, cands)]
        /\ UNCHANGED <<df, store, resp, th>>

\* the filter applied to the candidates the question was made from
FilterByAnswer ==
    /\ calc.op = "generate"
    /\ calc.question # NoQuestion
    /\ \E option \in Range(calc.question.options) \cup ForeignOptions :
           calc' = [op |-> "filter", cands |-> calc.cands,
                    question |-> calc.question, option |-> option,
                    result |-> filter_candidates_by_answer(
                                   df, calc.cands, calc.question, option)]
    /\ UNCHANGED <<df, store, resp, th>>

NextOptions == AskQuestion \/ FilterByAnswer

SpecOptions == InitOptions /\ [][NextOptions]_vars

-----------------------------------------------------------------------------
(* Claims about the options of a question *)

\* a question was generated by the last call
Asked == calc.op = "generate" /\ calc.question # NoQuestion

\* the positions of the candidates with a non-empty value at level c
Discriminated(c) ==
    {k \in DOMAIN calc.cands : Strip(df[calc.cands[k]].spec[c]) # ""}

\* the number of candidates whose trimmed value at level c is v
Frequency(c, v) ==
    Cardinality({k \in DOMAIN calc.cands : Strip(df[calc.cands[k]].spec[c]) = v})

ExpectedCounts(question) ==
    [k \in DOMAIN question.options |-> question.options[k].expected_count]

\* C11: the expected counts of the options of a generated question add up to
\* the number of candidates with a non-empty value at the questioned level
C11_CountsSumToDiscriminated ==
    Asked => Sum(ExpectedCounts(calc.question))
                 = Cardinality(Discriminated(calc.question.spec_column))

\* C11 witness: a question with an "Other" option, asked of candidates of
\* which one has no value at the questioned level
C11_Witness ==
    /\ Asked
    /\ Len(calc.question.options) = 4
    /\ calc.question.options[4].filter_value.kind = "list"
    /\ Cardinality(Discriminated(calc.question.spec_column)) < Len(calc.cands)

\* the lowest level at which the candidates of the last call have two
\* distinct non-empty values (0: none, or at most one candidate)
FirstLevel ==
    LET levels == DiscriminatingLevels(df, calc.cands)
    IN  IF Len(calc.cands) <= 1 \/ levels = {} THEN 0
        ELSE CHOOSE c \in levels : \A other \in levels : c <= other

\* C12: when the questioned level holds exactly two distinct non-empty values
\* the question has the two options "Yes", selecting a value no less frequent
\* than the other, and "No", the negation selector, and their expected counts
\* add up to the candidates with a non-empty value at the level
C12_BinaryQuestion ==
    (/\ calc.op = "generate"
     /\ FirstLevel # 0
     /\ Cardinality(DistinctValues(df, calc.cands, FirstLevel)) = 2)
    => LET options == calc.question.options
           values == DistinctValues(df, calc.cands, FirstLevel)
       IN  /\ calc.question.spec_column = FirstLevel
           /\ Len(options) = 2
           /\ options[1].label = "Yes"
           /\ options[1].filter_value.kind = "str"
           /\ options[1].filter_value.val \in values
           /\ \A v \in values :
                  Frequency(FirstLevel, options[1].filter_value.val)
                      >= Frequency(FirstLevel, v)
           /\ options[2].label = "No"
           /\ options[2].filter_value = FvNone
           /\ options[1].expected_count + options[2].expected_count
                  = Cardinality(Discriminated(FirstLevel))

\* C12 witness: a Yes/No question whose "Yes" value is not the first value of
\* the candidates and is the more frequent one, with an empty value at the level
C12_Witness ==
    /\ Asked
    /\ Len(calc.question.options) = 2
    /\ calc.question.options[2].filter_value = FvNone
    /\ LET c == calc.question.spec_column
           yes == calc.question.options[1].filter_value.val
       IN  /\ \E v \in DistinctValues(df, calc.cands, c) :
                  Frequency(c, yes) > Frequency(c, v)
           /\ Strip(df[calc.cands[1]].spec[c]) \notin {"", yes}
           /\ Cardinality(Discriminated(c)) < Len(calc.cands)

\* the filter was applied by the last call, with an option of the question
Answered == calc.op = "filter" /\ calc.option \in Range(calc.question.options)

\* C13: the Answer Filter, applied with an option of a question to the
\* candidates the question was made from, keeps exactly expected_count of them
C13_FilterYieldsExpectedCount ==
    Answered => Len(calc.result) = calc.option.expected_count

\* the position of candidate i in the candidates of the last call
PositionOf(i) == CHOOSE k \in DOMAIN calc.cands : calc.cands[k] = i

\* the candidates of the last call that selector fv of its question selects
Selected(fv) ==
    LET c == calc.question.spec_column
        primary == calc.question.options[1].filter_value.val
    IN  {i \in Range(calc.cands) :
            CASE fv.kind = "none" -> df[i].spec[c] # primary
              [] fv.kind = "list" -> \E k \in DOMAIN fv.vals : df[i].spec[c] = fv.vals[k]
              [] OTHER -> df[i].spec[c] = fv.val}

\* C14: the Answer Filter keeps exactly the candidates whose value at the
\* questioned level differs from the first option's value (negation selector),
\* is one of the set (set selector) or equals the value (single-value
\* selector), each once and in the order of the input
C14_FilterKeepsSelected ==
    calc.op = "filter"
    => /\ Range(calc.result) = Selected(calc.option.filter_value)
       /\ \A a, b \in DOMAIN calc.result :
              a < b => PositionOf(calc.result[a]) < PositionOf(calc.result[b])

\* C14 witness: a set selector that keeps two candidates that are not next to
\* each other and drops others
C14_Witness ==
    /\ calc.op = "filter"
    /\ calc.option.filter_value.kind = "list"
    /\ Len(calc.result) = 2
    /\ PositionOf(calc.result[2]) > PositionOf(calc.result[1]) + 1

\* the values that the single-value options among the first n options select
SingleValues(options, n) ==
    {options[k].filter_value.val :
        k \in {j \in 1..n : j <= Len(options) /\ options[j].filter_value.kind = "str"}}

\* C15: with more than four distinct non-empty values at the questioned level
\* the question has four options: three single values, none less frequent than
\* a value left out, each with its frequency, and "Other", whose selector is
\* the set of the values left out and whose expected count is the number of
\* candidates holding them; with three or four distinct values it has one
\* single-value option for each
C15_TopThreeAndOther ==
    (calc.op = "generate" /\ FirstLevel # 0)
    => LET c == FirstLevel
           options == calc.question.options
           values == DistinctValues(df, calc.cands, c)
           top == SingleValues(options, 3)
           rest == values \ top
       IN  /\ Cardinality(values) > 4
               => /\ Len(options) = 4
                  /\ Cardinality(top) = 3
                  /\ top \subseteq values
                  /\ \A k \in 1..3 :
                         /\ options[k].filter_value.kind = "str"
                         /\ options[k].expected_count
                                = Frequency(c, options[k].filter_value.val)
                  /\ \A v \in top, w \in rest : Frequency(c, v) >= Frequency(c, w)
                  /\ options[4].label = "Other"
                  /\ options[4].filter_value.kind = "list"
                  /\ Range(options[4].filter_value.vals) = rest
                  /\ Len(options[4].filter_value.vals) = Cardinality(rest)
                  /\ options[4].expected_count
                         = Cardinality({k \in Discriminated(c) :
                               Strip(df[calc.cands[k]].spec[c]) \in rest})
           /\ Cardinality(values) \in {3, 4}
               => /\ Len(options) = Cardinality(values)
                  /\ \A k \in DOMAIN options : options[k].filter_value.kind = "str"
                  /\ SingleValues(options, Len(options)) = values

\* C15 witness: five distinct values, the most frequent of them held by two
\* candidates and not the first value of the candidates
C15_Witness ==
    /\ Asked
    /\ Cardinality(DistinctValues(df, calc.cands, calc.question.spec_column)) = 5
    /\ calc.question.options[1].expected_count = 2
    /\ Strip(df[calc.cands[1]].spec[calc.question.spec_column])
           \notin {"", calc.question.options[1].filter_value.val}

-----------------------------------------------------------------------------
(* Rate Resolver: services/duty_calculator.py.  Rate strings are sequences   *)
(* of characters; amounts and rates are exact fractions [n, d] in lowest     *)
(* terms with d > 0, where the code computes with floats.                    *)

RECURSIVE GCD(_, _)
GCD(a, b) == IF b = 0 THEN a ELSE GCD(b, a % b)

Abs(a) == IF a < 0 THEN -a ELSE a

\* the fraction n/d in lowest terms
Rat(n, d) ==
    LET g == GCD(Abs(n), Abs(d))
        sign == IF d < 0 THEN -1 ELSE 1
    IN  [n |-> sign * (n \div g), d |-> sign * (d \div g)]

RZero == Rat(0, 1)
RInt(k) == Rat(k, 1)
RAdd(x, y) == Rat(x.n * y.d + y.n * x.d, x.d * y.d)
RSub(x, y) == Rat(x.n * y.d - y.n * x.d, x.d * y.d)
RMul(x, y) == Rat(x.n * y.n, x.d * y.d)
RDiv(x, y) == Rat(x.n * y.d, x.d * y.n)
RLess(x, y) == x.n * y.d < y.n * x.d

LowerLetters ==
    <<"a", "b", "c", "d", "e", "f", "g", "h", "i", "j", "k", "l", "m",
      "n", "o", "p", "q", "r", "s", "t", "u", "v", "w", "x", "y", "z">>

UpperLetters ==
    <<"A", "B", "C", "D", "E", "F", "G", "H", "I", "J", "K", "L", "M",
      "N", "O", "P", "Q", "R", "S", "T", "U", "V", "W", "X", "Y", "Z">>

\* str.lower(), character by character
LowerChar(ch) ==
    IF ch \in Range(UpperLetters)
    THEN LowerLetters[CHOOSE k \in DOMAIN UpperLetters : UpperLetters[k] = ch]
    ELSE ch

LowerChars(s) == [k \in DOMAIN s |-> LowerChar(s[k])]

\* the regex classes \d, \s and \w
IsDigitChar(ch) == ch \in Digits
IsSpaceChar(ch) == ch = " "
IsWordChar(ch) == ch \in Digits \cup Range(LowerLetters) \cup Range(UpperLetters) \cup {"_"}

\* "sub in s"
Contains(s, sub) ==
    \E i \in 1..(Len(s) - Len(sub) + 1) : SubSeq(s, i, i + Len(sub) - 1) = sub

\* the position after the longest run of digits (spaces, word characters)
\* that starts at position i
RECURSIVE DigitsEnd(_, _)
DigitsEnd(s, i) ==
    IF i <= Len(s) /\ IsDigitChar(s[i]) THEN DigitsEnd(s, i + 1) ELSE i

RECURSIVE SpacesEnd(_, _)
SpacesEnd(s, i) ==
    IF i <= Len(s) /\ IsSpaceChar(s[i]) THEN SpacesEnd(s, i + 1) ELSE i

RECURSIVE WordEnd(_, _)
WordEnd(s, i) ==
    IF i <= Len(s) /\ IsWordChar(s[i]) THEN WordEnd(s, i + 1) ELSE i

\* (\d+\.?\d*) matched at position i: the position after it, 0 without a match
NumberEnd(s, i) ==
    IF i <= Len(s) /\ IsDigitChar(s[i])
    THEN LET j == DigitsEnd(s, i)
         IN  IF j <= Len(s) /\ s[j] = "." THEN DigitsEnd(s, j + 1) ELSE j
    ELSE 0

\* the value of a run of digits
RECURSIVE DigitsValue(_)
DigitsValue(ds) ==
    IF ds = <<>> THEN 0
    ELSE 10 * DigitsValue(SubSeq(ds, 1, Len(ds) - 1))
         + (CHOOSE v \in 0..9 : FrameDigits[v + 1] = ds[Len(ds)])

RECURSIVE Pow10(_)
Pow10(k) == IF k = 0 THEN 1 ELSE 10 * Pow10(k - 1)

\* float() of digits with at most one dot
DecimalValue(num) ==
    LET ds == SelectSeq(num, IsDigitChar)
        dot == IF "." \in Range(num) THEN CHOOSE k \in DOMAIN num : num[k] = "." ELSE Len(num)
    IN  Rat(DigitsValue(ds), Pow10(Len(num) - dot))

\* float(s) succeeds: an optional sign, then digits with at most one dot and
\* at least one digit (the strings drawn here hold no exponent, "inf" or "nan")
IsFloat(s) ==
    LET t == StripChars(s)
        u == IF t # <<>> /\ t[1] \in {"+", "-"} THEN Tail(t) ELSE t
    IN  /\ Range(u) \subseteq Digits \cup {"."}
        /\ Range(u) \cap Digits # {}
        /\ Len(SelectSeq(u, LAMBDA ch : ch = ".")) <= 1

FloatValue(s) ==
    LET t == StripChars(s)
    IN  IF t[1] = "-" THEN RSub(RZero, DecimalValue(Tail(t)))
        ELSE IF t[1] = "+" THEN DecimalValue(Tail(t))
        ELSE DecimalValue(t)

\* the dict _parse_duty_rate returns; the keys a type lacks hold defaults
ParsedRate(type, rate, unit, text) ==
    [type |-> type, rate |-> rate, unit |-> unit, text |-> text]

\* re.search(r"(\d+\.?\d*)\s*%", s): the positions at which the pattern matches
PercentMatches(s) ==
    {i \in DOMAIN s :
        LET j == NumberEnd(s, i)
        IN  /\ j # 0
            /\ SpacesEnd(s, j) <= Len(s)
            /\ s[SpacesEnd(s, j)] = "%"}

\* the position after "\s*<ch>\s*" from position j on, 0 without a match
AfterMark(s, j, ch) ==
    IF j = 0 THEN 0
    ELSE LET k == SpacesEnd(s, j)
         IN  IF k <= Len(s) /\ s[k] = ch THEN SpacesEnd(s, k + 1) ELSE 0

\* re.search(r"(\d+\.?\d*)\s*¢\s*/\s*(\w+)", s); the slash needs no leading
\* \s* of its own, AfterMark has skipped the spaces before it
UnitStart(s, i) == AfterMark(s, AfterMark(s, NumberEnd(s, i), "¢"), "/")

UnitMatches(s) ==
    {i \in DOMAIN s :
        LET m == UnitStart(s, i)
        IN  m # 0 /\ m <= Len(s) /\ IsWordChar(s[m])}

Least(S) == CHOOSE i \in S : \A j \in S : i <= j

\* the rules tried in another order: a percentage before "free"
_parse_duty_rate_NumberFirst(rate_string) ==
    LET s == StripChars(rate_string)
    IN  IF PercentMatches(s) # {}
        THEN LET i == Least(PercentMatches(s))
             IN  ParsedRate("percentage",
                            DecimalValue(SubSeq(s, i, NumberEnd(s, i) - 1)), <<>>, <<>>)
        ELSE IF Contains(LowerChars(s), <<"f", "r", "e", "e">>)
        THEN ParsedRate("free", RZero, <<>>, <<>>)
        ELSE IF UnitMatches(s) # {}
        THEN LET i == Least(UnitMatches(s))
                 m == UnitStart(s, i)
             IN  ParsedRate("unit_based",
                            DecimalValue(SubSeq(s, i, NumberEnd(s, i) - 1)),
                            SubSeq(s, m, WordEnd(s, m) - 1), <<>>)
        ELSE IF IsFloat(s) THEN ParsedRate("percentage", FloatValue(s), <<>>, <<>>)
        ELSE ParsedRate("unsupported", RZero, <<>>, s)

_parse_duty_rate(rate_string) ==
    LET s == StripChars(rate_string)
    IN  IF Contains(LowerChars(s), <<"f", "r", "e", "e">>)
        THEN ParsedRate("free", RZero, <<>>, <<>>)
        ELSE IF PercentMatches(s) # {}
        THEN LET i == Least(PercentMatches(s))
             IN  ParsedRate("percentage",
                            DecimalValue(SubSeq(s, i, NumberEnd(s, i) - 1)), <<>>, <<>>)
        ELSE IF UnitMatches(s) # {}
        THEN LET i == Least(UnitMatches(s))
                 m == UnitStart(s, i)
             IN  ParsedRate("unit_based",
                            DecimalValue(SubSeq(s, i, NumberEnd(s, i) - 1)),
                            SubSeq(s, m, WordEnd(s, m) - 1), <<>>)
        ELSE IF IsFloat(s) THEN ParsedRate("percentage", FloatValue(s), <<>>, <<>>)
        ELSE ParsedRate("unsupported", RZero, <<>>, s)

-----------------------------------------------------------------------------
(* The rate parser as a function of the rate string *)

\* most pieces of a rate string drawn here
MaxPieces == 4

\* the pieces rate strings are put together from
RatePieces ==
    {<<"F", "r", "e", "e">>, <<"F", "R", "E", "E">>, <<"5">>, <<"2", ".", "5">>,
     <<".">>, <<"%">>, <<"¢">>, <<"/">>, <<"k", "g">>, <<" ">>, <<"-">>}

RECURSIVE RateStrings(_)
RateStrings(n) ==
    IF n = 0 THEN {<<>>}
    ELSE RateStrings(n - 1)
         \cup {s \o piece : s \in RateStrings(n - 1), piece \in RatePieces}

InitRates ==
    /\ df = Frame(<<>>)
    /\ store = <<>>
    /\ resp = NoResponse
    /\ th = [t \in Threads |-> IdleThread]
    /\ calc \in {[op |-> "", rate_string |-> s] : s \in RateStrings(MaxPieces)}

ParseRate ==
    /\ calc.op = ""
    /\ calc' = [op |-> "parse", rate_string |-> calc.rate_string,
                parsed |-> _parse_duty_rate(calc.rate_string)]
    /\ UNCHANGED <<df, store, resp, th>>

NextRates == ParseRate

SpecRates == InitRates /\ [][NextRates]_vars

-----------------------------------------------------------------------------
(* Claims about the rate parser *)

\* every position of s from a to b holds a space
SpacesOnly(s, a, b) == \A k \in a..b : s[k] = " "

\* position i of s ends a number: a digit, or a dot right after a digit
EndsNumber(s, i) ==
    \/ s[i] \in Digits
    \/ i > 1 /\ s[i] = "." /\ s[i - 1] \in Digits

\* s holds "free" in any mix of cases
HoldsFree(s) ==
    \E i \in DOMAIN s :
        /\ i + 3 <= Len(s)
        /\ s[i] \in {"f", "F"} /\ s[i + 1] \in {"r", "R"}
        /\ s[i + 2] \in {"e", "E"} /\ s[i + 3] \in {"e", "E"}

\* s holds a number, spaces or none, and a percent sign
HoldsPercentage(s) ==
    \E i, j \in DOMAIN s :
        i < j /\ EndsNumber(s, i) /\ SpacesOnly(s, i + 1, j - 1) /\ s[j] = "%"

\* s holds a number, the cent sign, a slash and a unit, with spaces or none
\* between them
HoldsCentsPerUnit(s) ==
    \E i, a, b, c \in DOMAIN s :
        /\ i < a /\ a < b /\ b < c
        /\ EndsNumber(s, i) /\ SpacesOnly(s, i + 1, a - 1) /\ s[a] = "¢"
        /\ SpacesOnly(s, a + 1, b - 1) /\ s[b] = "/"
        /\ SpacesOnly(s, b + 1, c - 1)
        /\ s[c] \notin {" ", ".", "%", "¢", "/", "-", "+"}

\* s, without the spaces around it, is a number and nothing else
IsBareNumber(s) ==
    LET t == StripChars(s)
    IN  /\ \E k \in DOMAIN t : t[k] \in Digits
        /\ \A k \in DOMAIN t :
               \/ t[k] \in Digits
               \/ t[k] = "." /\ \A other \in DOMAIN t : t[other] = "." => other = k
               \/ k = 1 /\ t[k] \in {"+", "-"}

\* C17: a rate string parses by the first rule that matches: "free" in any
\* case gives free, else a number with a percent sign gives percentage, else a
\* number with cents per unit gives unit_based, else a bare number gives
\* percentage, else unsupported
C17_FirstRuleWins ==
    calc.op = "parse"
    => LET s == calc.rate_string
       IN  calc.parsed.type =
               IF HoldsFree(s) THEN "free"
               ELSE IF HoldsPercentage(s) THEN "percentage"
               ELSE IF HoldsCentsPerUnit(s) THEN "unit_based"
               ELSE IF IsBareNumber(s) THEN "percentage"
               ELSE "unsupported"

\* C17 witness: a string with "free" and a percentage parses as free
C17_Witness ==
    /\ calc.op = "parse"
    /\ HoldsFree(calc.rate_string)
    /\ HoldsPercentage(calc.rate_string)
    /\ calc.parsed.type = "free"

-----------------------------------------------------------------------------
(* Cost Calculator: DutyCalculator.calculate_landed_cost, reached through    *)
(* DutyService.calculate from POST /api/duty/calculate                       *)

\* dict.get(key, ""): the value of a key, the empty string without the key
Get(h, key) == IF key \in DOMAIN h THEN h[key] ELSE <<>>

\* utils.countries.COLUMN_2_COUNTRIES: the restricted countries
COLUMN_2_COUNTRIES == {<<"C", "U">>, <<"K", "P">>}

\* re.findall(r"\((\w{2})\)", s) from position i on
RECURSIVE FindCountries(_, _)
FindCountries(s, i) ==
    IF i + 3 > Len(s) THEN <<>>
    ELSE IF /\ s[i] = "(" /\ IsWordChar(s[i + 1])
            /\ IsWordChar(s[i + 2]) /\ s[i + 3] = ")"
         THEN <<SubSeq(s, i + 1, i + 2)>> \o FindCountries(s, i + 4)
         ELSE FindCountries(s, i + 1)

\* the special rate is looked up before the restricted countries
_get_applicable_rate_info_SpecialFirst(hts_data, country_iso) ==
    LET special_rate_str == Get(hts_data, "Special_Rate_of_Duty")
    IN  IF country_iso \in Range(FindCountries(special_rate_str, 1))
        THEN [category |-> "Special", raw |-> special_rate_str]
        ELSE IF country_iso \in COLUMN_2_COUNTRIES
        THEN [category |-> "Column 2", raw |-> Get(hts_data, "Column_2_Rate_of_Duty")]
        ELSE [category |-> "General", raw |-> Get(hts_data, "General_Rate_of_Duty")]

_get_applicable_rate_info(hts_data, country_iso) ==
    IF country_iso \in COLUMN_2_COUNTRIES
    THEN [category |-> "Column 2", raw |-> Get(hts_data, "Column_2_Rate_of_Duty")]
    ELSE LET special_rate_str == Get(hts_data, "Special_Rate_of_Duty")
         IN  IF country_iso \in Range(FindCountries(special_rate_str, 1))
             THEN [category |-> "Special", raw |-> special_rate_str]
             ELSE [category |-> "General", raw |-> Get(hts_data, "General_Rate_of_Duty")]

\* an entry of calculation_notes: what it reports and the amount it names
Note(kind, amount) == [kind |-> kind, amount |-> amount]

\* a cents-per-unit rate applied as a percentage of the value
BaseDuty_UnitAsPercentage(base_value, parsed_rate) ==
    IF parsed_rate.type \in {"percentage", "unit_based"}
    THEN [duty_rate_pct |-> parsed_rate.rate,
          base_duty |-> RMul(base_value, RDiv(parsed_rate.rate, RInt(100))),
          notes |-> <<>>]
    ELSE IF parsed_rate.type = "free"
    THEN [duty_rate_pct |-> RZero, base_duty |-> RZero, notes |-> <<>>]
    ELSE [duty_rate_pct |-> RZero, base_duty |-> RZero,
          notes |-> <<Note("unsupported_rate", RZero)>>]

\* Step 2: duty_rate_pct, base_duty and the note of an unsupported rate
BaseDuty(base_value, parsed_rate) ==
    IF parsed_rate.type = "percentage"
    THEN [duty_rate_pct |-> parsed_rate.rate,
          base_duty |-> RMul(base_value, RDiv(parsed_rate.rate, RInt(100))),
          notes |-> <<>>]
    ELSE IF parsed_rate.type = "free"
    THEN [duty_rate_pct |-> RZero, base_duty |-> RZero, notes |-> <<>>]
    ELSE [duty_rate_pct |-> RZero, base_duty |-> RZero,
          notes |-> <<Note("unsupported_rate", RZero)>>]

\* Step 3a: 5% of the share of the value that is metal
MetalSurcharge(base_value, metal_percent) ==
    IF metal_percent > 0
    THEN RMul(RMul(base_value, RDiv(RInt(metal_percent), RInt(100))), Rat(5, 100))
    ELSE RZero

\* Step 3b: half of the duty before the exclusion
ExclusionReduction(has_exclusion, base_duty, metal_surcharge) ==
    IF has_exclusion THEN RMul(RAdd(base_duty, metal_surcharge), Rat(50, 100))
    ELSE RZero

\* the same fee for every transport mode
FlatFee_AlwaysOcean(transport_mode) == RInt(48)

\* Step 4: MPF and HMF by transport mode
FlatFee(transport_mode) == IF transport_mode = "Ocean" THEN RInt(48) ELSE RInt(35)

\* form_data: the entry date is passed on and never read
FormData(base_value, country_iso, transport_mode, has_exclusion, metal_percent) ==
    [base_value |-> base_value, country_iso |-> country_iso,
     transport_mode |-> transport_mode, has_exclusion |-> has_exclusion,
     metal_percent |-> metal_percent]

\* DutyCalculator(hts_data).calculate_landed_cost(form_data)
calculate_landed_cost(hts_data, form_data) ==
    LET rate_info == _get_applicable_rate_info(hts_data, form_data.country_iso)
        parsed_rate == _parse_duty_rate(rate_info.raw)
        duty == BaseDuty(form_data.base_value, parsed_rate)
        metal_surcharge == MetalSurcharge(form_data.base_value, form_data.metal_percent)
        exclusion_reduction ==
            ExclusionReduction(form_data.has_exclusion, duty.base_duty, metal_surcharge)
        total_duties ==
            RSub(RAdd(duty.base_duty, metal_surcharge), exclusion_reduction)
        mpf_hmf == FlatFee(form_data.transport_mode)
    IN  [base_value |-> form_data.base_value,
         rate_category |-> rate_info.category,
         duty_rate_pct |-> duty.duty_rate_pct,
         base_duty |-> duty.base_duty,
         metal_surcharge |-> metal_surcharge,
         exclusion_reduction |-> exclusion_reduction,
         total_duties |-> total_duties,
         mpf_hmf_fees |-> mpf_hmf,
         landed_cost |-> RAdd(RAdd(form_data.base_value, total_duties), mpf_hmf),
         calculation_notes |->
             duty.notes
             \o (IF form_data.metal_percent > 0
                 THEN <<Note("metal", metal_surcharge)>> ELSE <<>>)
             \o (IF form_data.has_exclusion
                 THEN <<Note("exclusion", exclusion_reduction)>> ELSE <<>>)]

\* DutyService(payload).calculate(form_data): services.duty_calculator is
\* importable, so the calculation is DutyCalculator's
DutyService_calculate(payload, form_data) == calculate_landed_cost(payload, form_data)

\* QueryAgent.get_candidate_details, the rate entries of the dict it returns
get_candidate_details(row) ==
    ("General Rate of Duty" :> Get(row, "General_Rate_of_Duty"))
    @@ ("Special Rate of Duty" :> Get(row, "Special_Rate_of_Duty"))
    @@ ("Column 2 Rate of Duty" :> Get(row, "Column_2_Rate_of_Duty"))

\* None, where the request holds an Optional hts_payload
NoHtsPayload == [is_none |-> TRUE]

CalculateRequest(session_id, hts_payload, form_data) ==
    [session_id |-> session_id, hts_payload |-> hts_payload, form |-> form_data]

NoBreakdown == [rate_category |-> ""]

CalculateResponse(req, status, detail, breakdown) ==
    [req |-> req, status |-> status, detail |-> detail, breakdown |-> breakdown]

\* an unresolved session is priced by its first candidate
router_calculate_landed_cost_FirstCandidate(d, st, req) ==
    IF req.session_id # 0 /\ req.session_id \notin SessionIds(st)
    THEN CalculateResponse(req, 404, "Session not found", NoBreakdown)
    ELSE IF req.session_id = 0 /\ req.hts_payload = NoHtsPayload
    THEN CalculateResponse(req, 400,
             "Provide session_id or hts_payload to calculate duties", NoBreakdown)
    ELSE LET payload ==
                 IF req.session_id # 0
                 THEN get_candidate_details(
                          d[st[req.session_id].candidate_indices[1]])
                 ELSE req.hts_payload
         IN  CalculateResponse(req, 200, "",
                               DutyService_calculate(payload, req.form))

\* POST /api/duty/calculate; session id 0 is no session id
router_calculate_landed_cost(d, st, req) ==
    IF req.session_id # 0 /\ req.session_id \notin SessionIds(st)
    THEN CalculateResponse(req, 404, "Session not found", NoBreakdown)
    ELSE IF req.session_id # 0 /\ st[req.session_id].final_result_index = NoneIdx
    THEN CalculateResponse(req, 400,
             "Session has not resolved to a final HTS candidate yet", NoBreakdown)
    ELSE IF req.session_id = 0 /\ req.hts_payload = NoHtsPayload
    THEN CalculateResponse(req, 400,
             "Provide session_id or hts_payload to calculate duties", NoBreakdown)
    ELSE LET payload ==
                 IF req.session_id # 0
                 THEN get_candidate_details(d[st[req.session_id].final_result_index])
                 ELSE req.hts_payload
         IN  CalculateResponse(req, 200, "",
                               DutyService_calculate(payload, req.form))

-----------------------------------------------------------------------------
(* The cost calculation as a function of the request *)

GeneralRates ==
    {<<"F", "r", "e", "e">>, <<"5", "%">>, <<"2", ".", "5", "¢", "/", "k", "g">>,
     <<"N", "/", "A">>, <<"-", "5">>}

SpecialRates ==
    {<<>>, <<"F", "r", "e", "e", " ", "(", "C", "A", ")">>,
     <<"2", ".", "5", "%", " ", "(", "A", "U", ")", "(", "C", "U", ")">>}

Column2Rates == {<<"3", "5", "%">>, <<"3", "5">>, <<>>}

\* the payloads a client sends: the rate columns of a catalog row, or the
\* details of a classification result, whose keys are spelled with spaces
HtsPayloads ==
    {[General_Rate_of_Duty |-> g, Special_Rate_of_Duty |-> sp,
      Column_2_Rate_of_Duty |-> c2] :
        g \in GeneralRates, sp \in SpecialRates, c2 \in Column2Rates}
    \cup {get_candidate_details([General_Rate_of_Duty |-> <<"5", "%">>])}

Countries == {<<"C", "A">>, <<"A", "U">>, <<"C", "U">>, <<"C", "N">>}

Forms ==
    {FormData(RInt(base_value), country_iso, transport_mode, has_exclusion,
              metal_percent) :
        base_value \in {0, 1000}, country_iso \in Countries,
        transport_mode \in {"Ocean", "Air", "Truck"},
        has_exclusion \in BOOLEAN, metal_percent \in {0, 50, 100}}

\* the requests drawn: with or without a session id, with or without a payload
CalculateRequests ==
    {CalculateRequest(session_id, hts_payload, form_data) :
        session_id \in {0} \cup ClientSessionIds,
        hts_payload \in HtsPayloads \cup {NoHtsPayload},
        form_data \in Forms}

InitDuty ==
    /\ df = Frame(<<>>)
    /\ store = <<>>
    /\ resp = NoResponse
    /\ th = [t \in Threads |-> IdleThread]
    /\ calc \in {[op |-> "", req |-> req] : req \in CalculateRequests}

CalculateDuty ==
    /\ calc.op = ""
    /\ calc' = [op |-> "calculate",
                response |-> router_calculate_landed_cost(df, store, calc.req)]
    /\ UNCHANGED <<df, store, resp, th>>

NextDuty == CalculateDuty

SpecDuty == InitDuty /\ [][NextDuty]_vars

-----------------------------------------------------------------------------
(* Claims about the rate category and the cost calculation *)

\* the last call produced a breakdown
Calculated == calc.op = "calculate" /\ calc.response.status = 200

Breakdown == calc.response.breakdown
Form == calc.response.req.form

\* the text s holds the two-character country code in parentheses
InParentheses(country, s) ==
    /\ Len(country) = 2
    /\ \E i \in DOMAIN s :
           /\ i + 3 <= Len(s)
           /\ s[i] = "(" /\ s[i + 1] = country[1]
           /\ s[i + 2] = country[2] /\ s[i + 3] = ")"

\* C16: the rate category is Column 2 for a restricted country, whatever the
\* special-rate text holds; else Special when the text holds the country in
\* parentheses; else General
C16_FirstMatchingCategory ==
    Calculated
    => Breakdown.rate_category =
           IF Form.country_iso \in COLUMN_2_COUNTRIES THEN "Column 2"
           ELSE IF InParentheses(Form.country_iso,
                                 Get(calc.response.req.hts_payload,
                                     "Special_Rate_of_Duty"))
                THEN "Special"
           ELSE "General"

\* C16 witness: a restricted country that the special-rate text names too
C16_Witness ==
    /\ Calculated
    /\ Form.country_iso \in COLUMN_2_COUNTRIES
    /\ InParentheses(Form.country_iso,
                     Get(calc.response.req.hts_payload, "Special_Rate_of_Duty"))
    /\ Breakdown.rate_category = "Column 2"

\* C18: total duties is base duty plus metal surcharge minus exclusion
\* reduction and never below zero, the exclusion reduction being half of base
\* duty plus metal surcharge with the exclusion flag and zero without it
C18_TotalDutiesFloored ==
    Calculated
    => LET before == RAdd(Breakdown.base_duty, Breakdown.metal_surcharge)
           after == RSub(before, Breakdown.exclusion_reduction)
       IN  /\ Breakdown.exclusion_reduction =
                  IF Form.has_exclusion THEN RMul(before, Rat(1, 2)) ELSE RZero
           /\ Breakdown.total_duties = IF RLess(after, RZero) THEN RZero ELSE after
           /\ ~RLess(Breakdown.total_duties, RZero)

\* C19: landed cost is base value plus total duties plus the flat fee, 48 for
\* transport mode "Ocean" and 35 for every other mode; base value 1000 at 5%
\* by another mode, without metal and exclusion, costs 1085
C19_LandedCost ==
    Calculated
    => /\ Breakdown.mpf_hmf_fees =
              IF Form.transport_mode = "Ocean" THEN RInt(48) ELSE RInt(35)
       /\ Breakdown.landed_cost =
              RAdd(RAdd(Form.base_value, Breakdown.total_duties),
                   Breakdown.mpf_hmf_fees)
       /\ (/\ Form.base_value = RInt(1000)
           /\ Breakdown.duty_rate_pct = RInt(5)
           /\ Form.transport_mode # "Ocean"
           /\ Form.metal_percent = 0
           /\ ~Form.has_exclusion)
          => Breakdown.landed_cost = RInt(1085)

\* C19 witness: the 5% example by air
C19_Witness ==
    /\ Calculated
    /\ Form.base_value = RInt(1000)
    /\ Breakdown.duty_rate_pct = RInt(5)
    /\ Form.transport_mode = "Air"
    /\ Form.metal_percent = 0
    /\ ~Form.has_exclusion
    /\ Breakdown.landed_cost = RInt(1085)

\* the rate text of the category of the breakdown
AppliedRate ==
    Get(calc.response.req.hts_payload,
        CASE Breakdown.rate_category = "Column 2" -> "Column_2_Rate_of_Duty"
          [] Breakdown.rate_category = "Special" -> "Special_Rate_of_Duty"
          [] OTHER -> "General_Rate_of_Duty")

\* the applied rate is Free; it is a Percentage
RateIsFree == HoldsFree(AppliedRate)
RateIsPercentage ==
    /\ ~RateIsFree
    /\ \/ HoldsPercentage(AppliedRate)
       \/ ~HoldsCentsPerUnit(AppliedRate) /\ IsBareNumber(AppliedRate)

UnsupportedNotes ==
    SelectSeq(Breakdown.calculation_notes, LAMBDA n : n.kind = "unsupported_rate")

\* C20: base duty is zero for a rate that is Free, UnitBased or Unsupported,
\* the breakdown is produced all the same, and the unsupported-rate note is
\* there exactly for a UnitBased or Unsupported rate
C20_ZeroDutyAndNote ==
    (calc.op = "calculate" /\ calc.response.req.session_id = 0
        /\ calc.response.req.hts_payload # NoHtsPayload)
    => /\ calc.response.status = 200
       /\ ~RateIsPercentage => Breakdown.base_duty = RZero
       /\ Len(UnsupportedNotes) = (IF RateIsFree \/ RateIsPercentage THEN 0 ELSE 1)

\* C20 witness: a cents-per-unit rate on a base value of 1000
C20_Witness ==
    /\ Calculated
    /\ HoldsCentsPerUnit(AppliedRate)
    /\ ~RateIsFree /\ ~RateIsPercentage
    /\ Form.base_value = RInt(1000)
    /\ Breakdown.base_duty = RZero
    /\ Len(UnsupportedNotes) = 1

-----------------------------------------------------------------------------
(* Claims about the end of a session, one request at a time *)

\* more than one candidate remains and the generator has no question for them
Exhausted(s) ==
    /\ Len(s.candidate_indices) > 1
    /\ generate_smart_question(df, s.candidate_indices) = NoQuestion

\* the step serves operation op for session sid
ServedFor(op, sid) == resp'.op = op /\ resp'.session_id = sid

\* C21: a session with more than one candidate and no question to ask is
\* terminal: GET /question and POST /answer are answered with an error,
\* GET /result with a preview of the candidates and no final record, and no
\* request changes the session
C21_ExhaustedIsTerminal ==
    [][\A sid \in SessionIds(store) :
          Exhausted(SessionOf(sid))
          => /\ store'[sid] = store[sid]
             /\ ServedFor("question", sid) => resp'.status # 200
             /\ ServedFor("answer", sid) => resp'.status # 200
             /\ ServedFor("result", sid)
                => /\ resp'.status = 200
                   /\ resp'.type = "preview"
                   /\ resp'.final = NoPayload
                   /\ resp'.preview
                          = HeadOf(SessionOf(sid).candidate_indices, ResultPreviewRows)]_vars

\* C21 witness: the result of an answered session that is left with two
\* candidates and no question was asked for
C21_Witness ==
    /\ resp.op = "result"
    /\ resp.session_id \in SessionIds(store)
    /\ Exhausted(SessionOf(resp.session_id))
    /\ ~Resolved(SessionOf(resp.session_id))
    /\ SessionOf(resp.session_id).question_history # <<>>
    /\ Len(resp.preview) = 2

-----------------------------------------------------------------------------
(* The Candidate Locator as a function of the query and of what the search   *)
(* collaborator reports                                                      *)

\* most hits the search collaborator reports for one query drawn here
LocatorHits == 2

\* row indices, each at most once, at most n of them
HitListsUpTo(d, n) ==
    {h \in UNION {[1..k -> DOMAIN d] : k \in 0..n} :
        \A a, b \in DOMAIN h : a # b => h[a] # h[b]}

\* the queries drawn for a catalog: every leading part of every HTS number
\* (with its dots), a complete code with one more digit, a prefix between
\* spaces, a complete code and a prefix no row has, digits with a letter, and
\* a product description
LocatorQueries(d) ==
    {SubSeq(d[i].hts, 1, n) : i \in DOMAIN d, n \in 0..13}
    \cup {d[i].hts \o <<"0">> : i \in DOMAIN d}
    \cup {<<" ">> \o SubSeq(d[i].hts, 1, 4) \o <<" ">> : i \in DOMAIN d}
    \cup {<<"9", "9", "9", "9">>,
          <<"9", "9", "9", "9", ".", "9", "9", ".", "9", "9", ".", "9", "9">>,
          <<"0", "1", "0", "x">>,
          <<"l", "i", "v", "e", " ", "h", "o", "r", "s", "e", "s">>}

\* clean of start_classification: the digit form of a query
CleanQuery(query) == StripChars(RemoveDots(StripChars(query)))

IsFullCode(query) ==
    IsDigit(CleanQuery(query)) /\ Len(CleanQuery(query)) = FullCodeLength

IsPartialCode(query) ==
    IsDigit(CleanQuery(query)) /\ Len(CleanQuery(query)) \in PrefixLengths

\* the collaborator is asked for exact hits only for a complete code, and for
\* free-text hits only when neither an exact hit nor a prefix decides
InitLocator ==
    /\ df \in Catalogs
    /\ store = <<>>
    /\ resp = NoResponse
    /\ th = [t \in Threads |-> IdleThread]
    /\ \E query \in LocatorQueries(df) :
           \E exact_hits \in (IF IsFullCode(query) THEN ExactHitLists(df) ELSE {<<>>}) :
               \E text_hits \in (IF IsPartialCode(query) \/ exact_hits # <<>>
                                 THEN {<<>>} ELSE HitListsUpTo(df, LocatorHits)) :
                   calc = [op |-> "", query |-> query,
                           exact_hits |-> exact_hits, text_hits |-> text_hits]

Locate ==
    /\ calc.op = ""
    /\ LET o == start_classification(df, store, ClassifyRequest(calc.query),
                                     calc.exact_hits, calc.text_hits)
       IN  /\ store' = o.store
           /\ resp' = o.resp
    /\ calc' = [calc EXCEPT !.op = "start"]
    /\ UNCHANGED <<df, th>>

NextLocator == Locate

SpecLocator == InitLocator /\ [][NextLocator]_vars

-----------------------------------------------------------------------------
(* Claims about the Candidate Locator *)

Located == calc.op = "start"

\* the rows whose HTS number, without its dots, starts with the digits
RowsStartingWith(digits) ==
    {i \in DOMAIN df :
        /\ Len(RemoveDots(df[i].hts)) >= Len(digits)
        /\ \A k \in DOMAIN digits : RemoveDots(df[i].hts)[k] = digits[k]}

\* h lists exactly the rows of S, in catalog order
InCatalogOrder(h, S) ==
    /\ Range(h) = S
    /\ \A a, b \in DOMAIN h : a < b => h[a] < h[b]

\* C22: a query with the digits of a complete code is handled as an
\* exact-code lookup and by that only, one with four or six digits as the
\* prefix lookup of every row that starts with them, in catalog order, and
\* every other query as the free-text lookup
C22_QueryKinds ==
    Located
    => LET digits == CleanQuery(calc.query)
       IN  IF IsDigit(digits) /\ Len(digits) = 10
           THEN /\ resp.type # "session"
                /\ calc.exact_hits # <<>>
                   => /\ resp.type = "exact"
                      /\ resp.final = details_for_index(df, calc.exact_hits[1])
           ELSE IF IsDigit(digits) /\ Len(digits) \in {4, 6}
           THEN IF RowsStartingWith(digits) = {}
                THEN resp.status = 404
                ELSE /\ resp.type = "session"
                     /\ InCatalogOrder(resp.located, RowsStartingWith(digits))
           ELSE IF calc.text_hits = <<>>
                THEN resp.status = 404
                ELSE /\ resp.type = "session"
                     /\ resp.located = calc.text_hits

\* C23: a query with the digits of a complete code for which the exact-code
\* lookup finds no record is answered with NotFound, and no session is
\* created for it
C23_ExactMissIsNotFound ==
    (Located /\ IsFullCode(calc.query) /\ calc.exact_hits = <<>>)
    => /\ resp.status = 404
       /\ store = <<>>

-----------------------------------------------------------------------------
(* Claims about the candidate set of a session, one request at a time *)

NoDuplicates(h) == \A a, b \in DOMAIN h : a # b => h[a] # h[b]

\* the candidates a session was created with, for a session made from a prefix
InitialCandidates(s) == get_candidates_by_prefix(df, CleanQuery(s.initial_query))

\* C24: the candidate set of a session never holds a row index twice, and no
\* request adds a row to it or makes it longer: it stays within the set the
\* session was created with
C24_CandidatesOnlyShrink ==
    [][\A sid \in SessionIds(store') :
          LET after == store'[sid].candidate_indices
          IN  /\ NoDuplicates(after)
              /\ sid \in SessionIds(store)
                 => /\ Range(after) \subseteq Range(SessionOf(sid).candidate_indices)
                    /\ Len(after) <= Len(SessionOf(sid).candidate_indices)]_vars

\* C24 witness: an answered session holds fewer candidates than it was
\* created with, and more than one
C24_Witness ==
    \E sid \in SessionIds(store) :
        /\ SessionOf(sid).question_history # <<>>
        /\ Len(SessionOf(sid).candidate_indices) > 1
        /\ Len(SessionOf(sid).candidate_indices) < Len(InitialCandidates(SessionOf(sid)))
        /\ Range(SessionOf(sid).candidate_indices)
               \subseteq Range(InitialCandidates(SessionOf(sid)))

\* C25: every stored session holds at least one candidate
C25_NoEmptyCandidateSet ==
    \A sid \in SessionIds(store) : SessionOf(sid).candidate_indices # <<>>

-----------------------------------------------------------------------------
(* Building the catalog: utils/preprocessing.py flatten_hts_with_indent.     *)
(* The cells of a source row are sequences of characters.                    *)

\* max_levels, the deepest indent kept (10 by default in the code)
MaxLevels == 2

\* most rows of a source table drawn here
MaxSourceRows == 4

\* the keys of duty_per_level[i]
DutyKeys == {"General", "Special", "Column2", "Unit"}

\* {"General":"", "Special":"", "Column2":"", "Unit":""}
NoDuty == [key \in DutyKeys |-> <<>>]

\* one row of the source CSV: Indent, Description, HTS Number and the cells
\* "General Rate of Duty", "Special Rate of Duty", "Column 2 Rate of Duty"
\* and "Unit of Quantity", these four by key
SourceRow(indent, description, hts, cells) ==
    [Indent |-> indent, Description |-> description, hts |-> hts, cells |-> cells]

\* int(str(row.get('Indent','')).strip()), None on ValueError
ParseIndent(cell) ==
    LET t == StripChars(cell)
        u == IF t # <<>> /\ t[1] \in {"+", "-"} THEN Tail(t) ELSE t
    IN  IF IsDigit(u)
        THEN [is_none |-> FALSE,
              val |-> IF t[1] = "-" THEN -DigitsValue(u) ELSE DigitsValue(u)]
        ELSE [is_none |-> TRUE, val |-> 0]

\* "Clamp indent"
ClampIndent(indent) ==
    IF indent > MaxLevels THEN MaxLevels ELSE IF indent < 0 THEN 0 ELSE indent

\* eff(key): the value of the nearest level, from indent down to 0, that
\* holds one
RECURSIVE eff(_, _, _)
eff(duty_per_level, lvl, key) ==
    IF lvl < 0 THEN <<>>
    ELSE IF duty_per_level[lvl][key] # <<>> THEN duty_per_level[lvl][key]
    ELSE eff(duty_per_level, lvl - 1, key)

\* the state of the loop before the first row
FlattenStart ==
    [current_levels |-> [l \in 0..MaxLevels |-> <<>>],
     duty_per_level |-> [l \in 0..MaxLevels |-> NoDuty],
     out_rows |-> <<>>]

\* "clear deeper levels": the duty records of the levels below the row's
ClearedDuty(duty_per_level, indent) ==
    [l \in 0..MaxLevels |-> IF l > indent THEN NoDuty ELSE duty_per_level[l]]

\* the body of the loop over the source rows
FlattenRow(state, row) ==
    LET desc == StripChars(row.Description)
        parsed == ParseIndent(row.Indent)
        has_indent == ~parsed.is_none
        indent == ClampIndent(parsed.val)
        rewrite == has_indent /\ desc # <<>>
        current_levels ==
            IF rewrite
            THEN [l \in 0..MaxLevels |->
                     IF l = indent THEN desc
                     ELSE IF l > indent THEN <<>>
                     ELSE state.current_levels[l]]
            ELSE state.current_levels
        cleared == IF rewrite THEN ClearedDuty(state.duty_per_level, indent)
                   ELSE state.duty_per_level
        own == [key \in DutyKeys |-> StripChars(row.cells[key])]
        duty_per_level ==
            IF has_indent
            THEN [cleared EXCEPT ![indent] =
                     [key \in DutyKeys |->
                         IF own[key] # <<>> THEN own[key] ELSE cleared[indent][key]]]
            ELSE cleared
        digits == SelectSeq(row.hts, IsDigitChar)
        out == [hts |-> row.hts,
                digits |-> SubSeq(digits, 1, FullCodeLength),
                levels |-> current_levels,
                duty |-> [key \in DutyKeys |->
                             IF has_indent THEN eff(duty_per_level, indent, key)
                             ELSE <<>>]]
    IN  [current_levels |-> current_levels,
         duty_per_level |-> duty_per_level,
         out_rows |-> IF Len(digits) >= FullCodeLength
                      THEN Append(state.out_rows, out) ELSE state.out_rows]

\* the loop over the first n rows of the source table
RECURSIVE FlattenRows(_, _)
FlattenRows(table, n) ==
    IF n = 0 THEN FlattenStart
    ELSE FlattenRow(FlattenRows(table, n - 1), table[n])

\* out_rows: the rows of the processed catalog
flatten_hts_with_indent(table) == FlattenRows(table, Len(table)).out_rows

-----------------------------------------------------------------------------
(* The catalog builder as a function of the source table *)

\* the text a cell of the k-th source row holds: the name of the column and
\* the number of the row
CellText(letter, k) == <<letter, FrameDigits[k + 1]>>

\* the duty cells the k-th row may hold: none, all four, or the general rate
\* alone
DrawnCells(k) ==
    {NoDuty,
     [key \in DutyKeys |-> CellText(key, k)],
     [key \in DutyKeys |-> IF key = "General" THEN CellText(key, k) ELSE <<>>]}

\* the rows drawn for position k: headings (no HTS number) and items (a
\* complete number) at indents 0 to 2, and items whose Indent is empty, too
\* deep or negative, whose Description is empty, or whose cells hold spaces
SourceRowsAt(k) ==
    {SourceRow(<<FrameDigits[i + 1]>>, CellText("d", k), hts, cells) :
        i \in 0..2, hts \in {FrameHts(k)}, cells \in DrawnCells(k)}
    \cup {SourceRow(<<FrameDigits[i + 1]>>, CellText("d", k), <<>>, cells) :
            i \in 0..2, cells \in {NoDuty, [key \in DutyKeys |-> CellText(key, k)]}}
    \cup {SourceRow(<<>>, CellText("d", k), FrameHts(k),
                    [key \in DutyKeys |-> CellText(key, k)]),
          SourceRow(<<"3">>, CellText("d", k), FrameHts(k), NoDuty),
          SourceRow(<<"-", "1">>, CellText("d", k), FrameHts(k), NoDuty),
          SourceRow(<<" ", "1">>, <<" ">>, FrameHts(k), NoDuty),
          SourceRow(<<"1">>, CellText("d", k), FrameHts(k),
                    [key \in DutyKeys |-> <<" ">>])}

\* the source tables of n rows
RECURSIVE SourceTables(_)
SourceTables(n) ==
    IF n = 0 THEN {<<>>}
    ELSE {Append(table, row) : table \in SourceTables(n - 1), row \in SourceRowsAt(n)}

InitFlatten ==
    /\ df = Frame(<<>>)
    /\ store = <<>>
    /\ resp = NoResponse
    /\ th = [t \in Threads |-> IdleThread]
    /\ \E n \in 0..MaxSourceRows :
           \E table \in SourceTables(n) : calc = [op |-> "", table |-> table]

Flatten ==
    /\ calc.op = ""
    /\ calc' = [op |-> "flatten", table |-> calc.table,
                out_rows |-> flatten_hts_with_indent(calc.table)]
    /\ UNCHANGED <<df, store, resp, th>>

NextFlatten == Flatten

SpecFlatten == InitFlatten /\ [][NextFlatten]_vars

-----------------------------------------------------------------------------
(* Claims about the built catalog *)

Flattened == calc.op = "flatten"

\* the source row a catalog row was built from
SourceOf(out) == CHOOSE k \in DOMAIN calc.table : calc.table[k].hts = out.hts

HasDepth(k) == ~ParseIndent(calc.table[k].Indent).is_none

\* the depth of source row k in the hierarchy
Depth(k) == ClampIndent(ParseIndent(calc.table[k].Indent).val)

\* the nearest earlier row that is less deep than row k: its parent; 0
\* without one
Parent(k) ==
    LET above == {j \in 1..(k - 1) : HasDepth(j) /\ Depth(j) < Depth(k)}
    IN  IF above = {} THEN 0 ELSE CHOOSE j \in above : \A i \in above : i <= j

\* the value of a key declared on row k, or else on its nearest ancestor that
\* declares one
RECURSIVE Inherited(_, _)
Inherited(k, key) ==
    IF k = 0 THEN <<>>
    ELSE IF StripChars(calc.table[k].cells[key]) # <<>>
    THEN StripChars(calc.table[k].cells[key])
    ELSE Inherited(Parent(k), key)

\* C26: the unit, general, special and column-2 value of every catalog row
\* is the value its own source row declares, or else the value of the
\* nearest ancestor that declares one; a value that only an earlier sibling,
\* or a row below an earlier sibling, declares is not inherited
C26_InheritedFromAncestors ==
    Flattened
    => \A r \in DOMAIN calc.out_rows :
           LET out == calc.out_rows[r]
           IN  HasDepth(SourceOf(out))
               => \A key \in DutyKeys : out.duty[key] = Inherited(SourceOf(out), key)

-----------------------------------------------------------------------------
(* Cost calculation for a session: the classification handlers and          *)
(* POST /api/duty/calculate with a session id, one request at a time         *)

\* the rate columns the catalog builder writes next to the specifications
RatedRow(row, general, special, column_2) ==
    row @@ [General_Rate_of_Duty |-> general, Special_Rate_of_Duty |-> special,
            Column_2_Rate_of_Duty |-> column_2]

\* the horses catalog with rates: a percentage with a special rate, a free
\* rate, and rows whose rate cells are empty
CatalogRated ==
    [i \in DOMAIN CatalogHorses |->
        IF i = 0
        THEN RatedRow(CatalogHorses[i], <<"5", "%">>,
                      <<"F", "r", "e", "e", " ", "(", "C", "A", ")">>,
                      <<"3", "5", "%">>)
        ELSE IF i = 1
        THEN RatedRow(CatalogHorses[i], <<"F", "r", "e", "e">>, <<>>, <<"3", "5">>)
        ELSE RatedRow(CatalogHorses[i], <<>>, <<>>, <<>>)]

\* one form per rate category
SessionForms ==
    {FormData(RInt(1000), country_iso, "Ocean", FALSE, 0) :
        country_iso \in {<<"C", "A">>, <<"A", "U">>, <<"C", "U">>}}

InitSessionCost ==
    /\ df = CatalogRated
    /\ store = <<>>
    /\ resp = NoResponse
    /\ th = [t \in Threads |-> IdleThread]
    /\ calc = NoCalc

\* the response of the calculation, with the form it was asked for
CostResponse(sid, response) ==
    [Response("calculate", sid, NoRequest)
        EXCEPT !.status = response.status, !.detail = response.detail]
    @@ [form |-> response.req.form, breakdown |-> response.breakdown]

\* the request names a session and carries no payload; the store is read only
CalculateForSession ==
    \E sid \in ClientSessionIds :
        \E form_data \in SessionForms :
            /\ resp' = CostResponse(sid,
                            router_calculate_landed_cost(
                                df, store,
                                CalculateRequest(sid, NoHtsPayload, form_data)))
            /\ UNCHANGED <<df, store, th, calc>>

NextSessionCost == StartClassification \/ PostAnswer \/ CalculateForSession

SpecSessionCost == InitSessionCost /\ [][NextSessionCost]_vars

-----------------------------------------------------------------------------
(* Claims about cost calculation for a session *)

\* the step serves a calculation for session sid
CalculateStep(sid) == resp'.op = "calculate" /\ resp'.session_id = sid

\* C27: a breakdown calculated for a session id is the breakdown the cost
\* calculator produces for the resolved record of that session itself
C27_SessionBreakdownIsRecordBreakdown ==
    [][\A sid \in ClientSessionIds :
           CalculateStep(sid) /\ resp'.status = 200
           => resp'.breakdown =
                  calculate_landed_cost(df[store[sid].final_result_index],
                                        resp'.form)]_vars

\* C28: a calculation by session id is rejected for an unknown session and
\* for a session with no resolved index, a breakdown is produced only for a
\* session narrowed to one record, and the call never changes the store
C28_SessionCalculationNeedsResolved ==
    [][\A sid \in ClientSessionIds :
           CalculateStep(sid)
           => /\ store' = store
              /\ sid \notin SessionIds(store)
                 => resp'.status = 404 /\ resp'.breakdown = NoBreakdown
              /\ sid \in SessionIds(store) /\ ~Resolved(store[sid])
                 => resp'.status = 400 /\ resp'.breakdown = NoBreakdown
              /\ resp'.status = 200
                 => /\ sid \in SessionIds(store)
                    /\ Resolved(store[sid])
                    /\ store[sid].candidate_indices
                           = <<store[sid].final_result_index>>
                    /\ store[sid].question_history # <<>>]_vars

\* a breakdown was produced for a session that an answer had resolved
C28_Witness ==
    /\ resp.op = "calculate"
    /\ resp.status = 200
    /\ resp.session_id \in SessionIds(store)
    /\ Resolved(store[resp.session_id])
    /\ store[resp.session_id].question_history # <<>>
    /\ resp.breakdown # NoBreakdown

-----------------------------------------------------------------------------
(* Claims about progress of a session, one request at a time *)

\* the session is resolved to its one candidate, or exhausted, or holds a
\* question about more than one candidate
ResolvedExhaustedOrAsking(s) ==
    \/ Resolved(s) /\ s.candidate_indices = <<s.final_result_index>>
    \/ Exhausted(s)
    \/ HasQuestion(s) /\ Len(s.candidate_indices) > 1

\* the step accepts an answer for session sid that names an option of its
\* current question
OptionAnswerStep(sid) ==
    /\ AnswerStep(sid)
    /\ resp'.status = 200
    /\ SelectsAnOption(SessionOf(sid).current_question, resp'.req)

\* C29: an accepted answer that names an option of the current question
\* leaves strictly fewer candidates and one more history entry; a session,
\* when created and after every such answer, is resolved, exhausted or holds
\* a question, so a session created with n candidates from a prefix is
\* resolved or exhausted after at most n - 1 such answers
C29_AnswersReduceToTheEnd ==
    [][\A sid \in SessionIds(store') :
          LET after == store'[sid]
          IN  /\ sid \notin SessionIds(store)
                 => ResolvedExhaustedOrAsking(after)
              /\ (sid \in SessionIds(store) /\ OptionAnswerStep(sid))
                 => /\ Len(after.candidate_indices)
                           < Len(SessionOf(sid).candidate_indices)
                    /\ Len(after.question_history)
                           = Len(SessionOf(sid).question_history) + 1
                    /\ ResolvedExhaustedOrAsking(after)
              /\ IsPartialCode(after.initial_query)
                 => Len(after.question_history) + Len(after.candidate_indices)
                        <= Len(InitialCandidates(after))]_vars

-----------------------------------------------------------------------------
(* Claims about the stored question, one request at a time *)

\* C30: a session that holds a question holds more than one candidate, and
\* the question is the generator's question for the candidates it holds now;
\* GET /question returns the stored question and changes nothing, however
\* often it is called
C30_QuestionIsForCurrentCandidates ==
    [][/\ \A sid \in SessionIds(store') :
              HasQuestion(store'[sid])
              => /\ Len(store'[sid].candidate_indices) > 1
                 /\ store'[sid].current_question
                        = generate_smart_question(df, store'[sid].candidate_indices)
       /\ \A sid \in ClientSessionIds :
              ServedFor("question", sid)
              => /\ store' = store
                 /\ resp'.status = 200
                    => /\ sid \in SessionIds(store)
                       /\ HasQuestion(SessionOf(sid))
                       /\ resp'.question = SessionOf(sid).current_question]_vars

\* C30 witness: the question of a session that has been answered once and
\* still holds several candidates was asked for and returned
C30_Witness ==
    /\ resp.op = "question"
    /\ resp.status = 200
    /\ resp.session_id \in SessionIds(store)
    /\ SessionOf(resp.session_id).question_history # <<>>
    /\ Len(SessionOf(resp.session_id).candidate_indices) > 1
    /\ resp.question = SessionOf(resp.session_id).current_question
    /\ resp.question # NoQuestion

====
